---- MODULE Spec2Model ----
(***************************************************************************)
(* GigaKitBot: the pet record store (Controller/controller.py, bot.py) and *)
(* the background scheduler (tasks.py), modelled as a state machine.       *)
(*                                                                         *)
(* The table `pets` of pets.db is a set of rows.  A row is a record with   *)
(* the columns of the CREATE TABLE statement plus the three warned_*       *)
(* columns added by ensure_warn_columns.  The wall-clock columns           *)
(* last_*_check carry no behaviour and are left out.                       *)
(***************************************************************************)
EXTENDS Integers, Sequences, FiniteSets, TLC

VARIABLES
    pets,      \* the rows of table pets
    pc,        \* pc[c]: where request thread c stands inside a two-statement handler
    req,       \* req[c]: the arguments of the request thread c is serving
    alive,     \* alive[l]: background loop l has not been ended by an exception
    last,      \* the step just taken: operation, arguments, outcome, messages sent
    opsLeft,   \* store operations the run may still perform
    ticksLeft, \* scheduler ticks the run may still perform
    phase,     \* phase[<<u, s>>]: the alert history of stat s of user u (see NextPhase)
    _seen_news \* the normalized titles the news provider remembers

vars == <<pets, pc, req, alive, last, opsLeft, ticksLeft, phase, _seen_news>>

(***************************************************************************)
(* Bounds of the model.                                                    *)
(***************************************************************************)
MaxOps == 6
MaxStatOps == 3
MaxSchedOps == 3
MaxTicks == 3

Users == {"u1", "u2"}
Names == {"Tom", "Rex"}
Clients == {"c1", "c2"}
Stats == {"satiety", "energy", "mood"}
Loops == {"hourly_decay", "energy_recovery", "check_low_stats"}
Items == {"finance", "gaming", "weather"}

(***************************************************************************)
(* Column defaults of CREATE TABLE pets and of ensure_warn_columns.        *)
(***************************************************************************)
DefaultMoney == 100
DefaultStat == 100
StatLo == 0
StatHi == 100

Max(a, b) == IF a >= b THEN a ELSE b
Min(a, b) == IF a <= b THEN a ELSE b

\* A variant of clamp that forgets the upper limit.
clampNoUpper(value, lo, hi) == Max(lo, value)

\* clamp(value, lo=0, hi=100)
clamp(value, lo, hi) == Max(lo, Min(hi, value))

\* A row whose money column has no default of 100.
NewRowEmptyPurse(user_id, name) ==
    [user_id |-> user_id, name |-> name,
     money |-> 0, satiety |-> DefaultStat,
     energy |-> DefaultStat, mood |-> DefaultStat,
     states |-> "NULL", PetInventory |-> <<>>, UserInventory |-> <<>>,
     warned_satiety |-> 0, warned_mood |-> 0, warned_energy |-> 0]

\* The row INSERT INTO pets (user_id, name) produces: every other column at its default.
NewRow(user_id, name) ==
    [user_id |-> user_id, name |-> name,
     money |-> DefaultMoney, satiety |-> DefaultStat,
     energy |-> DefaultStat, mood |-> DefaultStat,
     states |-> "NULL", PetInventory |-> <<>>, UserInventory |-> <<>>,
     warned_satiety |-> 0, warned_mood |-> 0, warned_energy |-> 0]

\* SELECT ... FROM pets WHERE user_id = ?
RowsOf(tbl, user_id) == {r \in tbl : r.user_id = user_id}
Exists(tbl, user_id) == RowsOf(tbl, user_id) # {}
fetchone(tbl, user_id) == CHOOSE r \in RowsOf(tbl, user_id) : TRUE

\* A table without the uniqueness constraint on user_id.
NoPrimaryKey(tbl, user_id) == FALSE

\* user_id TEXT PRIMARY KEY: an INSERT of a user_id already present raises IntegrityError.
PrimaryKeyViolated(tbl, user_id) == Exists(tbl, user_id)

\* UPDATE pets SET <field> = ? WHERE user_id = ?
UpdateField(tbl, user_id, field, value) ==
    {IF r.user_id = user_id THEN [r EXCEPT ![field] = value] ELSE r : r \in tbl}

\* DELETE FROM pets WHERE user_id = ?
DeleteRows(tbl, user_id) == {r \in tbl : r.user_id # user_id}

(***************************************************************************)
(* Alert thresholds of the low-stat sweep.                                 *)
(***************************************************************************)
SatietyThreshold == 30
MoodThreshold == 30
EnergyThreshold == 20

Threshold(s) ==
    CASE s = "satiety" -> SatietyThreshold
      [] s = "mood" -> MoodThreshold
      [] s = "energy" -> EnergyThreshold

WarnedColumn(s) ==
    CASE s = "satiety" -> "warned_satiety"
      [] s = "mood" -> "warned_mood"
      [] s = "energy" -> "warned_energy"

Pairs == Users \X Stats

\* The stats a set of messages lists for user u.
Listed(msgs, u) == UNION {m.stats : m \in {x \in msgs : x.user_id = u}}

\* What an observer of the messages and of the table remembers per user and stat:
\*   "alerted"    an alert listing the stat was sent and the stat has stayed at or
\*                below its threshold since;
\*   "recovered"  after an alert the stat rose above its threshold;
\*   "rearmed"    a sweep tick without exception has run while the stat was recovered;
\*   "normal"     otherwise.
NextPhase(old, present, value, threshold, listed, sweptOk) ==
    IF ~present THEN "normal"
    ELSE IF listed THEN "alerted"
    ELSE IF old = "alerted"
         THEN (IF value > threshold THEN "recovered" ELSE "alerted")
    ELSE IF old = "recovered"
         THEN (IF value <= threshold THEN "normal"
               ELSE IF sweptOk THEN "rearmed" ELSE "recovered")
    ELSE old

AllNormal == [p \in Pairs |-> "normal"]

Track(tbl, msgs, sweptOk) ==
    IF msgs = {} /\ phase = AllNormal
    THEN UNCHANGED phase
    ELSE phase' = [p \in Pairs |->
            LET present == Exists(tbl, p[1])
            IN NextPhase(phase[p], present,
                         IF present THEN fetchone(tbl, p[1])[p[2]] ELSE 0,
                         Threshold(p[2]), p[2] \in Listed(msgs, p[1]), sweptOk)]

NoMsgs == {}

\* One store operation: the new table and the record of the step.
StoreStep(op, user_id, text, arg, outcome, tbl) ==
    /\ opsLeft > 0
    /\ opsLeft' = opsLeft - 1
    /\ pets' = tbl
    /\ last' = [op |-> op, user_id |-> user_id, text |-> text, arg |-> arg,
                outcome |-> outcome, msgs |-> NoMsgs,
                listed |-> {}, processed |-> {}, raised |-> FALSE]
    /\ Track(tbl, NoMsgs, FALSE)
    /\ UNCHANGED <<alive, ticksLeft, _seen_news>>

(***************************************************************************)
(* Create and delete (controller.py createPet, deletePetByUserId; bot.py   *)
(* db_create_pet, db_delete_pet).  The existence check and the write are   *)
(* two statements; other requests may run between them.                    *)
(***************************************************************************)
Idle(c) == pc[c] = "idle"

\* A createPet that inserts without looking for an existing record.
createPet_select_unchecked(c, user_id, name) ==
    /\ Idle(c)
    /\ pc' = [pc EXCEPT ![c] = "createPet_insert"]
    /\ req' = [req EXCEPT ![c] = [user_id |-> user_id, name |-> name]]
    /\ StoreStep("createPet_select", user_id, name, 0, "pending", pets)

\* createPet, first statement: SELECT, 409 if a row is found.
createPet_select(c, user_id, name) ==
    /\ Idle(c)
    /\ IF Exists(pets, user_id)
       THEN /\ StoreStep("createPet_select", user_id, name, 0, "409", pets)
            /\ UNCHANGED <<pc, req>>
       ELSE /\ pc' = [pc EXCEPT ![c] = "createPet_insert"]
            /\ req' = [req EXCEPT ![c] = [user_id |-> user_id, name |-> name]]
            /\ StoreStep("createPet_select", user_id, name, 0, "pending", pets)

\* createPet, second statement: INSERT and commit.
createPet_insert(c) ==
    /\ pc[c] = "createPet_insert"
    /\ pc' = [pc EXCEPT ![c] = "idle"]
    /\ UNCHANGED req
    /\ IF PrimaryKeyViolated(pets, req[c].user_id)
       THEN StoreStep("createPet_insert", req[c].user_id, req[c].name, 0, "IntegrityError", pets)
       ELSE StoreStep("createPet_insert", req[c].user_id, req[c].name, 0, "201",
                      pets \cup {NewRow(req[c].user_id, req[c].name)})

\* db_create_pet, first statement: SELECT, None if a row is found.
db_create_pet_select(c, user_id, name) ==
    /\ Idle(c)
    /\ IF Exists(pets, user_id)
       THEN /\ StoreStep("db_create_pet_select", user_id, name, 0, "None", pets)
            /\ UNCHANGED <<pc, req>>
       ELSE /\ pc' = [pc EXCEPT ![c] = "db_create_pet_insert"]
            /\ req' = [req EXCEPT ![c] = [user_id |-> user_id, name |-> name]]
            /\ StoreStep("db_create_pet_select", user_id, name, 0, "pending", pets)

\* db_create_pet, second statement: INSERT and commit.
db_create_pet_insert(c) ==
    /\ pc[c] = "db_create_pet_insert"
    /\ pc' = [pc EXCEPT ![c] = "idle"]
    /\ UNCHANGED req
    /\ IF PrimaryKeyViolated(pets, req[c].user_id)
       THEN StoreStep("db_create_pet_insert", req[c].user_id, req[c].name, 0, "IntegrityError", pets)
       ELSE StoreStep("db_create_pet_insert", req[c].user_id, req[c].name, 0, "row",
                      pets \cup {NewRow(req[c].user_id, req[c].name)})

\* deletePetByUserId, first statement: SELECT, 404 if no row is found.
deletePetByUserId_select(c, user_id) ==
    /\ Idle(c)
    /\ IF ~Exists(pets, user_id)
       THEN /\ StoreStep("deletePetByUserId_select", user_id, "", 0, "404", pets)
            /\ UNCHANGED <<pc, req>>
       ELSE /\ pc' = [pc EXCEPT ![c] = "deletePetByUserId_delete"]
            /\ req' = [req EXCEPT ![c] = [user_id |-> user_id, name |-> ""]]
            /\ StoreStep("deletePetByUserId_select", user_id, "", 0, "pending", pets)

\* deletePetByUserId, second statement: DELETE and commit.
deletePetByUserId_delete(c) ==
    /\ pc[c] = "deletePetByUserId_delete"
    /\ pc' = [pc EXCEPT ![c] = "idle"]
    /\ UNCHANGED req
    /\ StoreStep("deletePetByUserId_delete", req[c].user_id, "", 0, "204",
                 DeleteRows(pets, req[c].user_id))

\* db_delete_pet: one DELETE, True whether or not a row was there.
db_delete_pet(c, user_id) ==
    /\ Idle(c)
    /\ UNCHANGED <<pc, req>>
    /\ StoreStep("db_delete_pet", user_id, "", 0, "True", DeleteRows(pets, user_id))

(***************************************************************************)
(* Inputs the requests are drawn from.                                     *)
(***************************************************************************)
AmountInputs == {-1, 0, 250}
StatInputs == {-1, 0, 15, 30, 100, 101}
DeltaInputs == {-150, -10, 10, 150}
MoodChanges == {-20, 3, 20}

(***************************************************************************)
(* controller.py: absolute and delta updates of one column.  Each handler  *)
(* is taken as one step here.                                              *)
(***************************************************************************)
\* setMoney: no range check on amount.
setMoney(user_id, amount) ==
    /\ UNCHANGED <<pc, req>>
    /\ IF ~Exists(pets, user_id)
       THEN StoreStep("setMoney", user_id, "", amount, "404", pets)
       ELSE StoreStep("setMoney", user_id, "", amount, "200",
                      UpdateField(pets, user_id, "money", amount))

\* allMoneyMinus: new_value = max(0, money - n)
allMoneyMinus(user_id, n) ==
    /\ UNCHANGED <<pc, req>>
    /\ IF ~Exists(pets, user_id)
       THEN StoreStep("allMoneyMinus", user_id, "", n, "404", pets)
       ELSE StoreStep("allMoneyMinus", user_id, "", n, "200",
                      UpdateField(pets, user_id, "money",
                                  Max(0, fetchone(pets, user_id).money - n)))

\* An absolute set that stores the value without the range check.
SetStatUnchecked(op, field, user_id, value) ==
    /\ UNCHANGED <<pc, req>>
    /\ IF ~Exists(pets, user_id)
       THEN StoreStep(op, user_id, "", value, "404", pets)
       ELSE StoreStep(op, user_id, "", value, "200",
                      UpdateField(pets, user_id, field, value))

\* An absolute set that looks the user up before it checks the range.
SetStatLookupFirst(op, field, user_id, value) ==
    /\ UNCHANGED <<pc, req>>
    /\ IF ~Exists(pets, user_id)
       THEN StoreStep(op, user_id, "", value, "404", pets)
       ELSE IF ~(StatLo <= value /\ value <= StatHi)
       THEN StoreStep(op, user_id, "", value, "400", pets)
       ELSE StoreStep(op, user_id, "", value, "200",
                      UpdateField(pets, user_id, field, value))

\* setSatiety / setEnergy / setMood: 400 unless 0 <= value <= 100, then 404, then UPDATE.
SetStat(op, field, user_id, value) ==
    /\ UNCHANGED <<pc, req>>
    /\ IF ~(StatLo <= value /\ value <= StatHi)
       THEN StoreStep(op, user_id, "", value, "400", pets)
       ELSE IF ~Exists(pets, user_id)
       THEN StoreStep(op, user_id, "", value, "404", pets)
       ELSE StoreStep(op, user_id, "", value, "200",
                      UpdateField(pets, user_id, field, value))

setSatiety(user_id, value) == SetStat("setSatiety", "satiety", user_id, value)
setEnergy(user_id, value) == SetStat("setEnergy", "energy", user_id, value)
setMood(user_id, value) == SetStat("setMood", "mood", user_id, value)

\* A delta that adds n instead of subtracting it.
StatMinusAdds(op, field, user_id, n) ==
    /\ UNCHANGED <<pc, req>>
    /\ IF ~Exists(pets, user_id)
       THEN StoreStep(op, user_id, "", n, "404", pets)
       ELSE StoreStep(op, user_id, "", n, "200",
                      UpdateField(pets, user_id, field,
                                  Max(0, Min(100, fetchone(pets, user_id)[field] + n))))

\* allSatietyMinus / allEnergyMinus / allMoodMinus: new_value = max(0, min(100, old - n))
StatMinus(op, field, user_id, n) ==
    /\ UNCHANGED <<pc, req>>
    /\ IF ~Exists(pets, user_id)
       THEN StoreStep(op, user_id, "", n, "404", pets)
       ELSE StoreStep(op, user_id, "", n, "200",
                      UpdateField(pets, user_id, field,
                                  Max(0, Min(100, fetchone(pets, user_id)[field] - n))))

allSatietyMinus(user_id, n) == StatMinus("allSatietyMinus", "satiety", user_id, n)
allEnergyMinus(user_id, n) == StatMinus("allEnergyMinus", "energy", user_id, n)
allMoodMinus(user_id, n) == StatMinus("allMoodMinus", "mood", user_id, n)

(***************************************************************************)
(* controller.py: reads, name, states and the two inventories.             *)
(***************************************************************************)
GetOps ==
    {"getPetByUserId", "getMoney", "getName", "getSatiety", "getEnergy", "getMood",
     "getStates", "getPetInventory", "getUserInventory"}

\* The GET endpoints: SELECT, 404 if no row is found, else the value.
Get(op, user_id) ==
    /\ UNCHANGED <<pc, req>>
    /\ StoreStep(op, user_id, "", 0, IF Exists(pets, user_id) THEN "200" ELSE "404", pets)

MaxNameLen == 15

\* setName: 400 if the name is longer than 15, then 404, then UPDATE.
setName(user_id, name) ==
    /\ UNCHANGED <<pc, req>>
    /\ IF Len(name) > MaxNameLen
       THEN StoreStep("setName", user_id, name, 0, "400", pets)
       ELSE IF ~Exists(pets, user_id)
       THEN StoreStep("setName", user_id, name, 0, "404", pets)
       ELSE StoreStep("setName", user_id, name, 0, "200",
                      UpdateField(pets, user_id, "name", name))

\* setStates: 404, else the column is replaced by json.dumps(states).
setStates(user_id, states) ==
    /\ UNCHANGED <<pc, req>>
    /\ IF ~Exists(pets, user_id)
       THEN StoreStep("setStates", user_id, states, 0, "404", pets)
       ELSE StoreStep("setStates", user_id, states, 0, "200",
                      UpdateField(pets, user_id, "states", states))

\* list.remove(item): the list without the first occurrence of item.
RECURSIVE Remove(_, _)
Remove(inventory, item) ==
    IF inventory = <<>> THEN <<>>
    ELSE IF Head(inventory) = item THEN Tail(inventory)
    ELSE <<Head(inventory)>> \o Remove(Tail(inventory), item)

\* addPetItem / addUserItem: 404, else inventory.append(item) and UPDATE.
AddItem(op, column, user_id, item) ==
    /\ UNCHANGED <<pc, req>>
    /\ IF ~Exists(pets, user_id)
       THEN StoreStep(op, user_id, item, 0, "404", pets)
       ELSE StoreStep(op, user_id, item, 0, "200",
                      UpdateField(pets, user_id, column,
                                  Append(fetchone(pets, user_id)[column], item)))

addPetItem(user_id, item) == AddItem("addPetItem", "PetInventory", user_id, item)
addUserItem(user_id, item) == AddItem("addUserItem", "UserInventory", user_id, item)

\* removePetItem / removeUserItem: 404 without a pet, 404 if the item is not in the
\* inventory, else inventory.remove(item) and UPDATE.
RemoveItem(op, column, user_id, item) ==
    /\ UNCHANGED <<pc, req>>
    /\ IF ~Exists(pets, user_id)
       THEN StoreStep(op, user_id, item, 0, "404", pets)
       ELSE IF ~(\E i \in 1..Len(fetchone(pets, user_id)[column]) :
                    fetchone(pets, user_id)[column][i] = item)
       THEN StoreStep(op, user_id, item, 0, "404 item", pets)
       ELSE StoreStep(op, user_id, item, 0, "200",
                      UpdateField(pets, user_id, column,
                                  Remove(fetchone(pets, user_id)[column], item)))

removePetItem(user_id, item) == RemoveItem("removePetItem", "PetInventory", user_id, item)
removeUserItem(user_id, item) == RemoveItem("removeUserItem", "UserInventory", user_id, item)

(***************************************************************************)
(* bot.py: the storage helpers, as functions from a table to a table.      *)
(***************************************************************************)
\* db_update_pet_value(user_id, field, value)
db_update_pet_value(tbl, user_id, field, value) == UpdateField(tbl, user_id, field, value)

\* db_add_money: new_money = max(0, money + amount)
db_add_money(tbl, user_id, amount) ==
    UpdateField(tbl, user_id, "money", Max(0, fetchone(tbl, user_id).money + amount))

\* db_apply_minus: the three stats are read, clamped and written back together.
db_apply_minus(tbl, user_id, satiety_n, energy_n, mood_n) ==
    IF ~Exists(tbl, user_id) THEN tbl
    ELSE LET pet == fetchone(tbl, user_id)
             new_satiety == clamp(pet.satiety - satiety_n, StatLo, StatHi)
             new_energy == clamp(pet.energy - energy_n, StatLo, StatHi)
             new_mood == clamp(pet.mood - mood_n, StatLo, StatHi)
         IN {IF r.user_id = user_id
             THEN [r EXCEPT !.satiety = new_satiety, !.energy = new_energy, !.mood = new_mood]
             ELSE r : r \in tbl}

\* db_get_pet_inventory / db_get_user_inventory: [] when there is no pet.
db_get_pet_inventory(tbl, user_id) ==
    IF Exists(tbl, user_id) THEN fetchone(tbl, user_id).PetInventory ELSE <<>>
db_get_user_inventory(tbl, user_id) ==
    IF Exists(tbl, user_id) THEN fetchone(tbl, user_id).UserInventory ELSE <<>>

InSeq(x, sq) == \E i \in 1..Len(sq) : sq[i] = x

\* A db_add_pet_item that appends the item to the worn list.
db_add_pet_item_append(tbl, user_id, item) ==
    db_update_pet_value(tbl, user_id, "PetInventory",
                        Append(db_get_pet_inventory(tbl, user_id), item))

\* db_add_pet_item: the worn list becomes [item].
db_add_pet_item(tbl, user_id, item) == db_update_pet_value(tbl, user_id, "PetInventory", <<item>>)

\* db_add_user_item: append to the owned list.
db_add_user_item(tbl, user_id, item) ==
    db_update_pet_value(tbl, user_id, "UserInventory",
                        Append(db_get_user_inventory(tbl, user_id), item))

(***************************************************************************)
(* bot.py: the user actions.  Each callback is taken as one step here.     *)
(***************************************************************************)
FeedCost == 1
FeedSatiety == 10
PlayEnergy == 10
PlayMood == 10
PlayReward == 5
ItemPrice == 100

\* A feed that does not ask for the coin.
cb_feed_unguarded(user_id) ==
    /\ UNCHANGED <<pc, req>>
    /\ IF ~Exists(pets, user_id)
       THEN StoreStep("cb_feed", user_id, "", 0, "no pet", pets)
       ELSE IF fetchone(pets, user_id).satiety >= 100
       THEN StoreStep("cb_feed", user_id, "", 0, "full", pets)
       ELSE StoreStep("cb_feed", user_id, "", 0, "fed",
                      db_apply_minus(db_add_money(pets, user_id, -FeedCost),
                                     user_id, -FeedSatiety, 0, 0))

\* cb_feed: -1 coin, +10 satiety, unless full or broke.
cb_feed(user_id) ==
    /\ UNCHANGED <<pc, req>>
    /\ IF ~Exists(pets, user_id)
       THEN StoreStep("cb_feed", user_id, "", 0, "no pet", pets)
       ELSE LET pet == fetchone(pets, user_id) IN
            IF pet.satiety >= 100
            THEN StoreStep("cb_feed", user_id, "", 0, "full", pets)
            ELSE IF pet.money < FeedCost
            THEN StoreStep("cb_feed", user_id, "", 0, "no money", pets)
            ELSE StoreStep("cb_feed", user_id, "", 0, "fed",
                           db_apply_minus(db_add_money(pets, user_id, -FeedCost),
                                          user_id, -FeedSatiety, 0, 0))

\* A play that does not ask for the energy.
cb_play_unguarded(user_id) ==
    /\ UNCHANGED <<pc, req>>
    /\ IF ~Exists(pets, user_id)
       THEN StoreStep("cb_play", user_id, "", 0, "no pet", pets)
       ELSE IF fetchone(pets, user_id).mood >= 100
       THEN StoreStep("cb_play", user_id, "", 0, "full", pets)
       ELSE StoreStep("cb_play", user_id, "", 0, "played",
               db_add_money(
                  db_apply_minus(
                     db_apply_minus(pets, user_id, 0, PlayEnergy, 0),
                     user_id, 0, 0, -PlayMood),
                  user_id, PlayReward))

\* cb_play: -10 energy, +10 mood, +5 coins, unless mood is full or energy < 10.
cb_play(user_id) ==
    /\ UNCHANGED <<pc, req>>
    /\ IF ~Exists(pets, user_id)
       THEN StoreStep("cb_play", user_id, "", 0, "no pet", pets)
       ELSE LET pet == fetchone(pets, user_id) IN
            IF pet.mood >= 100
            THEN StoreStep("cb_play", user_id, "", 0, "full", pets)
            ELSE IF pet.energy < PlayEnergy
            THEN StoreStep("cb_play", user_id, "", 0, "tired", pets)
            ELSE StoreStep("cb_play", user_id, "", 0, "played",
                    db_add_money(
                       db_apply_minus(
                          db_apply_minus(pets, user_id, 0, PlayEnergy, 0),
                          user_id, 0, 0, -PlayMood),
                       user_id, PlayReward))

\* A recovery without the minimum of 1.
RecoveryNoMinimum(satiety) == (10 * satiety) \div 100

\* recovery = int(10 * (satiety / 100)), at least 1
Recovery(satiety) == Max(1, (10 * satiety) \div 100)

\* cb_sleep: energy = min(100, energy + recovery), unless energy is full.
cb_sleep(user_id) ==
    /\ UNCHANGED <<pc, req>>
    /\ IF ~Exists(pets, user_id)
       THEN StoreStep("cb_sleep", user_id, "", 0, "no pet", pets)
       ELSE LET pet == fetchone(pets, user_id) IN
            IF pet.energy >= 100
            THEN StoreStep("cb_sleep", user_id, "", 0, "full", pets)
            ELSE StoreStep("cb_sleep", user_id, "", 0, "slept",
                           db_update_pet_value(pets, user_id, "energy",
                              Min(100, pet.energy + Recovery(pet.satiety))))

\* cb_buy: -100 coins and the item appended, unless broke or already owned.
cb_buy(user_id, item) ==
    /\ UNCHANGED <<pc, req>>
    /\ IF ~Exists(pets, user_id)
       THEN StoreStep("cb_buy", user_id, item, 0, "no pet", pets)
       ELSE LET pet == fetchone(pets, user_id) IN
            IF pet.money < ItemPrice
            THEN StoreStep("cb_buy", user_id, item, 0, "no money", pets)
            ELSE IF InSeq(item, db_get_user_inventory(pets, user_id))
            THEN StoreStep("cb_buy", user_id, item, 0, "owned", pets)
            ELSE StoreStep("cb_buy", user_id, item, 0, "bought",
                           db_add_user_item(db_add_money(pets, user_id, -ItemPrice),
                                            user_id, item))

\* cb_wear: take the item off if it is worn, else put it on in place of any other.
\* Without a pet the UPDATE touches no row and dict(cur.fetchone()) raises TypeError.
cb_wear(user_id, item) ==
    /\ UNCHANGED <<pc, req>>
    /\ IF ~Exists(pets, user_id)
       THEN StoreStep("cb_wear", user_id, item, 0, "TypeError", pets)
       ELSE IF InSeq(item, db_get_pet_inventory(pets, user_id))
       THEN StoreStep("cb_wear", user_id, item, 0, "off",
                      db_update_pet_value(pets, user_id, "PetInventory", <<>>))
       ELSE StoreStep("cb_wear", user_id, item, 0, "on",
                      db_add_pet_item(pets, user_id, item))

\* db_remove_user_item: with the item in the list, inv.remove(inv) looks for the list
\* itself among its items and raises ValueError; without it the list is written back
\* as it is, where db_update_pet_value raises TypeError if there is no pet.
db_remove_user_item(user_id, item) ==
    /\ UNCHANGED <<pc, req>>
    /\ IF InSeq(item, db_get_user_inventory(pets, user_id))
       THEN StoreStep("db_remove_user_item", user_id, item, 0, "ValueError", pets)
       ELSE IF ~Exists(pets, user_id)
       THEN StoreStep("db_remove_user_item", user_id, item, 0, "TypeError", pets)
       ELSE StoreStep("db_remove_user_item", user_id, item, 0, "list",
                      db_update_pet_value(pets, user_id, "UserInventory",
                                          db_get_user_inventory(pets, user_id)))

\* _send_news_async with a non-empty news list whose mood_change values sum to total.
send_news(user_id, total_mood_change) ==
    /\ UNCHANGED <<pc, req>>
    /\ IF ~Exists(pets, user_id)
       THEN StoreStep("_send_news_async", user_id, "", total_mood_change, "no pet", pets)
       ELSE StoreStep("_send_news_async", user_id, "", total_mood_change, "sent",
                      db_apply_minus(pets, user_id, 0, 0, -total_mood_change))

\* _send_weather_async: only with the weather accessory worn.
send_weather(user_id, mood_change) ==
    /\ UNCHANGED <<pc, req>>
    /\ IF ~Exists(pets, user_id)
       THEN StoreStep("_send_weather_async", user_id, "", mood_change, "no pet", pets)
       ELSE LET pet_inventory == db_get_pet_inventory(pets, user_id) IN
            IF pet_inventory = <<>> \/ pet_inventory[1] # "weather"
            THEN StoreStep("_send_weather_async", user_id, "", mood_change, "unavailable", pets)
            ELSE StoreStep("_send_weather_async", user_id, "", mood_change, "sent",
                           db_apply_minus(pets, user_id, 0, 0, -mood_change))

(***************************************************************************)
(* tasks.py: the per-user functions of the scheduler.                      *)
(***************************************************************************)
HourlySatietyDecay == 10
HourlyMoodDecay == 5

\* An hourly decay that takes 10 from mood as well.
apply_hourly_decay_equal(tbl, user_id) ==
    IF ~Exists(tbl, user_id) THEN tbl
    ELSE LET row == fetchone(tbl, user_id)
             new_satiety == clamp(row.satiety - HourlySatietyDecay, StatLo, StatHi)
             new_mood == clamp(row.mood - HourlySatietyDecay, StatLo, StatHi)
         IN {IF r.user_id = user_id
             THEN [r EXCEPT !.satiety = new_satiety, !.mood = new_mood]
             ELSE r : r \in tbl}

\* apply_hourly_decay: satiety - 10 and mood - 5, clamped; None when there is no pet.
apply_hourly_decay(tbl, user_id) ==
    IF ~Exists(tbl, user_id) THEN tbl
    ELSE LET row == fetchone(tbl, user_id)
             new_satiety == clamp(row.satiety - HourlySatietyDecay, StatLo, StatHi)
             new_mood == clamp(row.mood - HourlyMoodDecay, StatLo, StatHi)
         IN {IF r.user_id = user_id
             THEN [r EXCEPT !.satiety = new_satiety, !.mood = new_mood]
             ELSE r : r \in tbl}

\* apply_energy_recovery: energy = min(100, energy + recovery); None when there is no pet.
apply_energy_recovery(tbl, user_id) ==
    IF ~Exists(tbl, user_id) THEN tbl
    ELSE LET row == fetchone(tbl, user_id)
         IN UpdateField(tbl, user_id, "energy", Min(100, row.energy + Recovery(row.satiety)))

\* set_warned_flags(user_id, **flags): flags is a function from column names to 0/1.
set_warned_flags(tbl, user_id, flags) ==
    {IF r.user_id = user_id
     THEN [f \in DOMAIN r |-> IF f \in DOMAIN flags THEN flags[f] ELSE r[f]]
     ELSE r : r \in tbl}

\* get_all_users
get_all_users(tbl) == {r.user_id : r \in tbl}

\* apply_hourly_decay called for one user.
hourly_decay(user_id) ==
    /\ UNCHANGED <<pc, req>>
    /\ StoreStep("apply_hourly_decay", user_id, "", 0,
                 IF Exists(pets, user_id) THEN "row" ELSE "None",
                 apply_hourly_decay(pets, user_id))

\* apply_energy_recovery called for one user.
energy_recovery(user_id) ==
    /\ UNCHANGED <<pc, req>>
    /\ StoreStep("apply_energy_recovery", user_id, "", 0,
                 IF Exists(pets, user_id) THEN "row" ELSE "None",
                 apply_energy_recovery(pets, user_id))

(***************************************************************************)
(* tasks.py: the three background loops.  One tick of a loop is one step:  *)
(* the listing query, then the users in the order the query returned them. *)
(* An exception is an input of the tick: the listing query may raise, and  *)
(* for one user of the tick a storage call or the send may raise.          *)
(***************************************************************************)
Nobody == "nobody"

\* The exceptions a tick may meet: none, or one call raising for one user.
Failures(points) == {<<Nobody, "">>} \cup (Users \X points)

\* The orders in which fetchall may return a set of rows (or of user ids).
Orders(S) ==
    {sq \in [1..Cardinality(S) -> S] : \A i, j \in 1..Cardinality(S) : sq[i] = sq[j] => i = j}

FailAt(u, failUser, failPoint, point) == u = failUser /\ failPoint = point

\* The messages one user gets: none when nothing is listed.
Message(u, stats, ok) ==
    IF stats = {} THEN {} ELSE {[user_id |-> u, stats |-> stats, ok |-> ok]}

TickResult(tbl, msgs, processed, raised, crashed) ==
    [tbl |-> tbl, msgs |-> msgs, processed |-> processed, raised |-> raised,
     crashed |-> crashed]

\* flag_updates as a function from the columns to change to their new values.
FlagUpdates(set1, set0) ==
    [f \in {WarnedColumn(s) : s \in set1 \cup set0} |->
        IF \E s \in set1 : WarnedColumn(s) = f THEN 1 ELSE 0]

HourlyStats == {"satiety", "mood"}

\* A warning that does not look at the flag.
HourlyWarningsRepeat(pet) == {s \in HourlyStats : pet[s] = 0}

\* task_hourly_decay, lines 185-199: the stats to warn about and the flags to clear.
HourlyWarnings(pet) == {s \in HourlyStats : pet[s] = 0 /\ pet[WarnedColumn(s)] = 0}
HourlyCleared(pet) == {s \in HourlyStats : pet[s] > 0 /\ pet[WarnedColumn(s)] # 0}

\* task_hourly_decay, the body of the for loop for the users of `order`, inside try/except.
RECURSIVE HourlyUsers(_, _, _, _)
HourlyUsers(order, tbl, failUser, failPoint) ==
    IF order = <<>> THEN TickResult(tbl, {}, {}, FALSE, FALSE)
    ELSE LET u == Head(order)
             decayed == apply_hourly_decay(tbl, u)
             pet == fetchone(decayed, u)
             warnings == HourlyWarnings(pet)
             flag_updates == FlagUpdates(warnings, HourlyCleared(pet))
         IN IF FailAt(u, failUser, failPoint, "storage") \/ ~Exists(tbl, u)
            THEN LET rest == HourlyUsers(Tail(order), tbl, failUser, failPoint)
                 IN TickResult(rest.tbl, rest.msgs, rest.processed \cup {u},
                               Exists(tbl, u) \/ rest.raised, FALSE)
            ELSE IF DOMAIN flag_updates # {} /\ FailAt(u, failUser, failPoint, "flags")
            THEN LET rest == HourlyUsers(Tail(order), decayed, failUser, failPoint)
                 IN TickResult(rest.tbl, rest.msgs, rest.processed \cup {u}, TRUE, FALSE)
            ELSE LET flagged == IF DOMAIN flag_updates # {}
                                THEN set_warned_flags(decayed, u, flag_updates)
                                ELSE decayed
                     sendFails == warnings # {} /\ FailAt(u, failUser, failPoint, "send")
                     rest == HourlyUsers(Tail(order), flagged, failUser, failPoint)
                 IN TickResult(rest.tbl, rest.msgs \cup Message(u, warnings, ~sendFails),
                               rest.processed \cup {u}, sendFails \/ rest.raised, FALSE)

\* task_energy_recovery, the body of the for loop, inside try/except.
RECURSIVE EnergyUsers(_, _, _, _)
EnergyUsers(order, tbl, failUser, failPoint) ==
    IF order = <<>> THEN TickResult(tbl, {}, {}, FALSE, FALSE)
    ELSE LET u == Head(order)
             fails == FailAt(u, failUser, failPoint, "storage")
             rest == EnergyUsers(Tail(order),
                                 IF fails THEN tbl ELSE apply_energy_recovery(tbl, u),
                                 failUser, failPoint)
         IN TickResult(rest.tbl, {}, rest.processed \cup {u}, fails \/ rest.raised, FALSE)

\* task_check_low_stats, lines 243-249: the rows the sweep selects.
SweepSelect(tbl) ==
    {r \in tbl : r.satiety < SatietyThreshold \/ r.energy < EnergyThreshold
                 \/ r.mood < MoodThreshold}

\* task_check_low_stats, lines 260-288: per stat, alert when 0 < value <= threshold and
\* not yet warned; in the else branch clear a set flag.
SweepLow(pet, s) == 0 < pet[s] /\ pet[s] <= Threshold(s)
\* An alert list that names every low stat, flagged or not.
SweepAlertsAll(pet) == {s \in Stats : SweepLow(pet, s)}

SweepAlerts(pet) == {s \in Stats : SweepLow(pet, s) /\ pet[WarnedColumn(s)] = 0}
SweepCleared(pet) == {s \in Stats : ~SweepLow(pet, s) /\ pet[WarnedColumn(s)] # 0}

\* task_check_low_stats, the body of the for loop over the selected rows: no try/except
\* around set_warned_flags, so an exception there leaves the loop and the coroutine.
RECURSIVE SweepRows(_, _, _, _)
SweepRows(order, tbl, failUser, failPoint) ==
    IF order = <<>> THEN TickResult(tbl, {}, {}, FALSE, FALSE)
    ELSE LET pet == Head(order)
             u == pet.user_id
             alerts == SweepAlerts(pet)
             flag_updates == FlagUpdates(alerts, SweepCleared(pet))
         IN IF DOMAIN flag_updates # {} /\ FailAt(u, failUser, failPoint, "flags")
            THEN TickResult(tbl, {}, {u}, TRUE, TRUE)
            ELSE LET flagged == IF DOMAIN flag_updates # {}
                                THEN set_warned_flags(tbl, u, flag_updates)
                                ELSE tbl
                     sendFails == alerts # {} /\ FailAt(u, failUser, failPoint, "send")
                     rest == SweepRows(Tail(order), flagged, failUser, failPoint)
                 IN TickResult(rest.tbl, rest.msgs \cup Message(u, alerts, ~sendFails),
                               rest.processed \cup {u}, sendFails \/ rest.raised,
                               rest.crashed)

\* One tick of loop l: what it listed and what came of it.
TickStep(l, listed, failUser, failPoint, res) ==
    /\ ticksLeft > 0
    /\ ticksLeft' = ticksLeft - 1
    /\ pets' = res.tbl
    /\ alive' = [alive EXCEPT ![l] = ~res.crashed]
    /\ last' = [op |-> l, user_id |-> IF res.raised THEN failUser ELSE Nobody,
                text |-> IF res.raised THEN failPoint ELSE "", arg |-> 0,
                outcome |-> IF res.crashed THEN "crashed" ELSE "ok",
                msgs |-> res.msgs, listed |-> listed, processed |-> res.processed,
                raised |-> res.raised]
    /\ Track(res.tbl, res.msgs, l = "check_low_stats" /\ ~res.raised)
    /\ UNCHANGED <<pc, req, opsLeft, _seen_news>>

\* The listing query of a tick raises: nothing is inside a try, the coroutine ends.
TickListFails(l) ==
    /\ alive[l]
    /\ TickStep(l, {}, Nobody, "list", TickResult(pets, {}, {}, TRUE, TRUE))

\* task_hourly_decay: one pass of the while loop.
task_hourly_decay(failUser, failPoint) ==
    /\ alive["hourly_decay"]
    /\ \E order \in Orders(get_all_users(pets)) :
          TickStep("hourly_decay", get_all_users(pets), failUser, failPoint,
                   HourlyUsers(order, pets, failUser, failPoint))

\* task_energy_recovery: one pass of the while loop.
task_energy_recovery(failUser, failPoint) ==
    /\ alive["energy_recovery"]
    /\ \E order \in Orders(get_all_users(pets)) :
          TickStep("energy_recovery", get_all_users(pets), failUser, failPoint,
                   EnergyUsers(order, pets, failUser, failPoint))

\* task_check_low_stats: one pass of the while loop.
task_check_low_stats(failUser, failPoint) ==
    /\ alive["check_low_stats"]
    /\ \E order \in Orders(SweepSelect(pets)) :
          TickStep("check_low_stats", {r.user_id : r \in SweepSelect(pets)},
                   failUser, failPoint, SweepRows(order, pets, failUser, failPoint))

(***************************************************************************)
(* bot.py, tasks.py: the read-modify-write functions statement by          *)
(* statement.  Each opens its own connection, runs a SELECT, computes the  *)
(* new values from the row it read and runs an UPDATE; the loops and the   *)
(* bot's handlers run in threads of their own, so statements of two calls  *)
(* may alternate.  req[c] keeps what thread c read.                        *)
(***************************************************************************)
\* The SELECT of function op in thread c: None if there is no row.
Select(c, op, user_id, n) ==
    /\ Idle(c)
    /\ pc' = [pc EXCEPT ![c] = IF Exists(pets, user_id) THEN op ELSE "done"]
    /\ req' = [req EXCEPT ![c] =
                  [user_id |-> user_id, name |-> "", op |-> op, n |-> n,
                   row |-> IF Exists(pets, user_id) THEN fetchone(pets, user_id)
                           ELSE NewRow(user_id, "")]]
    /\ StoreStep(op, user_id, "SELECT", 0,
                 IF Exists(pets, user_id) THEN "pending" ELSE "None", pets)

\* The UPDATE of function op in thread c, writing the columns of `values`.
Update(c, op, values) ==
    /\ pc[c] = op
    /\ pc' = [pc EXCEPT ![c] = "done"]
    /\ UNCHANGED req
    /\ StoreStep(op, req[c].user_id, "UPDATE", 0, "row",
                 {IF r.user_id = req[c].user_id
                  THEN [f \in DOMAIN r |-> IF f \in DOMAIN values THEN values[f] ELSE r[f]]
                  ELSE r : r \in pets})

NoArgs == [satiety |-> 0, energy |-> 0, mood |-> 0]

\* apply_hourly_decay: SELECT satiety, mood; UPDATE satiety, mood.
apply_hourly_decay_select(c, user_id) == Select(c, "apply_hourly_decay", user_id, NoArgs)
apply_hourly_decay_update(c) ==
    Update(c, "apply_hourly_decay",
           [satiety |-> clamp(req[c].row.satiety - HourlySatietyDecay, StatLo, StatHi),
            mood |-> clamp(req[c].row.mood - HourlyMoodDecay, StatLo, StatHi)])

\* An energy recovery that writes back the satiety it read along with the energy.
apply_energy_recovery_update_both(c) ==
    Update(c, "apply_energy_recovery",
           [energy |-> Min(100, req[c].row.energy + Recovery(req[c].row.satiety)),
            satiety |-> req[c].row.satiety])

\* apply_energy_recovery: SELECT energy, satiety; UPDATE energy.
apply_energy_recovery_select(c, user_id) ==
    Select(c, "apply_energy_recovery", user_id, NoArgs)
apply_energy_recovery_update(c) ==
    Update(c, "apply_energy_recovery",
           [energy |-> Min(100, req[c].row.energy + Recovery(req[c].row.satiety))])

\* A db_apply_minus that writes the differences without clamp.
db_apply_minus_update_unclamped(c) ==
    Update(c, "db_apply_minus",
           [satiety |-> req[c].row.satiety - req[c].n.satiety,
            energy |-> req[c].row.energy - req[c].n.energy,
            mood |-> req[c].row.mood - req[c].n.mood])

\* db_apply_minus: SELECT *; UPDATE satiety, energy, mood.
db_apply_minus_select(c, user_id, n) == Select(c, "db_apply_minus", user_id, n)
db_apply_minus_update(c) ==
    Update(c, "db_apply_minus",
           [satiety |-> clamp(req[c].row.satiety - req[c].n.satiety, StatLo, StatHi),
            energy |-> clamp(req[c].row.energy - req[c].n.energy, StatLo, StatHi),
            mood |-> clamp(req[c].row.mood - req[c].n.mood, StatLo, StatHi)])

\* cb_buy statement by statement in thread c: req[c].row is the row db_get_pet read,
\* req[c].money the money db_add_money read, req[c].inv the list db_add_user_item read.
BuyStep(c, next, outcome, fields, tbl) ==
    /\ pc' = [pc EXCEPT ![c] = next]
    /\ req' = [req EXCEPT ![c] =
                  [f \in DOMAIN req[c] \cup DOMAIN fields |->
                      IF f \in DOMAIN fields THEN fields[f] ELSE req[c][f]]]
    /\ StoreStep("cb_buy", IF "user_id" \in DOMAIN fields THEN fields.user_id
                           ELSE req[c].user_id,
                 IF "n" \in DOMAIN fields THEN fields.n ELSE req[c].n, 0, outcome, tbl)

\* pet = db_get_pet(user_id); if not pet; if pet["money"] < 100
cb_buy_get_pet(c, user_id, item) ==
    /\ Idle(c)
    /\ LET fields == [user_id |-> user_id, name |-> "", op |-> "cb_buy", n |-> item,
                      row |-> IF Exists(pets, user_id) THEN fetchone(pets, user_id)
                              ELSE NewRow(user_id, ""),
                      money |-> 0, inv |-> <<>>]
       IN IF ~Exists(pets, user_id) THEN BuyStep(c, "done", "no pet", fields, pets)
          ELSE IF fetchone(pets, user_id).money < ItemPrice
          THEN BuyStep(c, "done", "no money", fields, pets)
          ELSE BuyStep(c, "cb_buy_get_inventory", "pending", fields, pets)

\* A buy that does not look for the item among the owned ones.
cb_buy_get_inventory_unchecked(c) ==
    /\ pc[c] = "cb_buy_get_inventory"
    /\ BuyStep(c, "db_add_money_select", "pending", <<>>, pets)

\* user_items = db_get_user_inventory(user_id); if item in user_items
cb_buy_get_inventory(c) ==
    /\ pc[c] = "cb_buy_get_inventory"
    /\ IF InSeq(req[c].n, db_get_user_inventory(pets, req[c].user_id))
       THEN BuyStep(c, "done", "owned", <<>>, pets)
       ELSE BuyStep(c, "db_add_money_select", "pending", <<>>, pets)

\* db_add_money(user_id, -100): SELECT money
cb_buy_add_money_select(c) ==
    /\ pc[c] = "db_add_money_select"
    /\ BuyStep(c, "db_add_money_update", "pending",
               [money |-> fetchone(pets, req[c].user_id).money], pets)

\* db_add_money(user_id, -100): UPDATE money = max(0, money - 100); commit
cb_buy_add_money_update(c) ==
    /\ pc[c] = "db_add_money_update"
    /\ BuyStep(c, "db_add_user_item_select", "pending", <<>>,
               UpdateField(pets, req[c].user_id, "money", Max(0, req[c].money - ItemPrice)))

\* db_add_user_item(user_id, item): inv = db_get_user_inventory(user_id)
cb_buy_add_user_item_select(c) ==
    /\ pc[c] = "db_add_user_item_select"
    /\ BuyStep(c, "db_add_user_item_update", "pending",
               [inv |-> db_get_user_inventory(pets, req[c].user_id)], pets)

\* db_add_user_item(user_id, item): inv.append(item); db_update_pet_value
cb_buy_add_user_item_update(c) ==
    /\ pc[c] = "db_add_user_item_update"
    /\ BuyStep(c, "done", "bought", <<>>,
               db_update_pet_value(pets, req[c].user_id, "UserInventory",
                                   Append(req[c].inv, req[c].n)))

\* One tick of a loop statement by statement in thread c, while other threads write.
\* req[c] keeps the users or rows still to visit (order), the row read last (row), what
\* the listing query returned (listed), the users visited so far in their order
\* (processed) and those whose visit ended in the except clause (raised).  A send
\* writes nothing and is left out.
LoopStep(c, next, fields, outcome, tbl) ==
    /\ pc' = [pc EXCEPT ![c] = next]
    /\ req' = [req EXCEPT ![c] =
                  [f \in DOMAIN req[c] \cup DOMAIN fields |->
                      IF f \in DOMAIN fields THEN fields[f] ELSE req[c][f]]]
    /\ StoreStep(IF "op" \in DOMAIN fields THEN fields.op ELSE req[c].op,
                 IF "user_id" \in DOMAIN fields THEN fields.user_id ELSE req[c].user_id,
                 pc[c], 0, outcome, tbl)

\* The first statement of the visit of a user or row in loop l.
Visit(l) == IF l = "check_low_stats" THEN "loop_row" ELSE "loop_select"

\* The end of the visit of Head(order): the for loop goes on with the next one.
NextVisit(c, outcome, raised, tbl) ==
    LET rest == Tail(req[c].order)
        u == req[c].user_id
    IN LoopStep(c, IF rest = <<>> THEN "done" ELSE Visit(req[c].op),
                [order |-> rest,
                 user_id |-> IF rest = <<>> THEN u
                             ELSE IF req[c].op = "check_low_stats" THEN Head(rest).user_id
                             ELSE Head(rest),
                 processed |-> Append(req[c].processed, u),
                 raised |-> IF raised THEN req[c].raised \cup {u} ELSE req[c].raised],
                outcome, tbl)

\* users = get_all_users(), or the SELECT of task_check_low_stats with its rows.
loop_list(c, l) ==
    /\ Idle(c)
    /\ \E order \in IF l = "check_low_stats" THEN Orders(SweepSelect(pets))
                     ELSE Orders(get_all_users(pets)) :
          LoopStep(c, IF order = <<>> THEN "done" ELSE Visit(l),
                   [op |-> l, name |-> "", order |-> order,
                    user_id |-> IF order = <<>> THEN Nobody
                                ELSE IF l = "check_low_stats" THEN Head(order).user_id
                                ELSE Head(order),
                    row |-> NewRow(Nobody, ""),
                    listed |-> IF l = "check_low_stats"
                               THEN {r.user_id : r \in SweepSelect(pets)}
                               ELSE get_all_users(pets),
                    processed |-> <<>>, raised |-> {}],
                   "listed", pets)

\* apply_hourly_decay / apply_energy_recovery: the SELECT; None without a row, and the
\* loop goes on.
loop_select(c) ==
    /\ pc[c] = "loop_select"
    /\ IF ~Exists(pets, req[c].user_id)
       THEN NextVisit(c, "None", FALSE, pets)
       ELSE LoopStep(c, "loop_update", [row |-> fetchone(pets, req[c].user_id)],
                     "pending", pets)

\* The values the UPDATE of loop l writes, from the row its SELECT read.
LoopValues(l, row) ==
    IF l = "hourly_decay"
    THEN [satiety |-> clamp(row.satiety - HourlySatietyDecay, StatLo, StatHi),
          mood |-> clamp(row.mood - HourlyMoodDecay, StatLo, StatHi)]
    ELSE [energy |-> Min(100, row.energy + Recovery(row.satiety))]

\* The row with the values of the UPDATE written into it.
Written(row, values) ==
    [f \in DOMAIN row |-> IF f \in DOMAIN values THEN values[f] ELSE row[f]]

\* An UPDATE that puts the row back when it is gone.
loop_update_upsert(c) ==
    /\ pc[c] = "loop_update"
    /\ LoopStep(c, "loop_reselect", <<>>, "pending",
                DeleteRows(pets, req[c].user_id)
                   \cup {Written(req[c].row, LoopValues(req[c].op, req[c].row))})

\* apply_hourly_decay / apply_energy_recovery: UPDATE ... WHERE user_id = ?; commit.
\* Without the row nothing is written.
loop_update(c) ==
    /\ pc[c] = "loop_update"
    /\ LoopStep(c, "loop_reselect", <<>>, "pending",
                {IF r.user_id = req[c].user_id
                 THEN Written(r, LoopValues(req[c].op, req[c].row))
                 ELSE r : r \in pets})

\* apply_hourly_decay / apply_energy_recovery: SELECT *; return dict(cur.fetchone()).
\* Without the row dict(None) raises TypeError, which the except clause of the loop
\* catches.  task_hourly_decay then works out the flags from the row returned.
loop_reselect(c) ==
    /\ pc[c] = "loop_reselect"
    /\ IF ~Exists(pets, req[c].user_id)
       THEN NextVisit(c, "TypeError", TRUE, pets)
       ELSE LET pet == fetchone(pets, req[c].user_id)
                flag_updates == FlagUpdates(HourlyWarnings(pet), HourlyCleared(pet))
            IN IF req[c].op = "hourly_decay" /\ DOMAIN flag_updates # {}
               THEN LoopStep(c, "loop_flags", [row |-> pet], "pending", pets)
               ELSE NextVisit(c, "row", FALSE, pets)

\* task_hourly_decay: set_warned_flags(user_id, **flag_updates)
loop_flags(c) ==
    /\ pc[c] = "loop_flags"
    /\ NextVisit(c, "flags", FALSE,
                 set_warned_flags(pets, req[c].user_id,
                                  FlagUpdates(HourlyWarnings(req[c].row),
                                              HourlyCleared(req[c].row))))

\* task_check_low_stats: the body of the for loop for the row at the head, with the
\* values the SELECT of the tick read.
loop_row(c) ==
    /\ pc[c] = "loop_row"
    /\ LET pet == Head(req[c].order)
           flag_updates == FlagUpdates(SweepAlerts(pet), SweepCleared(pet))
       IN NextVisit(c, IF DOMAIN flag_updates # {} THEN "flags" ELSE "row", FALSE,
                    IF DOMAIN flag_updates # {}
                    THEN set_warned_flags(pets, pet.user_id, flag_updates)
                    ELSE pets)

(***************************************************************************)
(* news_module.py: the classifier.  A text is the set of the substrings    *)
(* the code looks for that occur in it (lower-cased); a random draw is a   *)
(* choice among the values it can return, so each function gives the set   *)
(* of its possible results.                                                *)
(***************************************************************************)
Reaction(mood_change, is_positive) ==
    [reaction |-> "text", mood_change |-> mood_change, is_positive |-> is_positive]

\* random.randint(a, b)
randint(a, b) == a..b

\* Some of the temperatures of range(22, 30) and of range(-10, 5), and three of the
\* keywords of each of the lists positive and negative (transliterated).
WarmTemps == {"22c", "25c", "29c"}
ColdTemps == {"-10c", "0c", "4c"}
positive == {"rost", "uspeh", "pobeda"}
negative == {"padenie", "krizis", "ubytok"}

\* _local_ai_reaction
_local_ai_reaction(text, prompt_type) ==
    IF prompt_type = "weather"
    THEN IF "solnechno" \in text \/ text \cap WarmTemps # {}
         THEN {Reaction(m, TRUE) : m \in randint(12, 18)}
         ELSE IF "dozhd" \in text \/ "sneg" \in text
         THEN {Reaction(m, FALSE) : m \in randint(-12, -6)}
         ELSE IF text \cap ColdTemps # {}
         THEN {Reaction(m, FALSE) : m \in randint(-10, -5)}
         ELSE {Reaction(m, TRUE) : m \in randint(2, 6)}
    ELSE LET pos == 2 * Cardinality(text \cap positive) + (IF "!" \in text THEN 1 ELSE 0)
             neg == 2 * Cardinality(text \cap negative) + (IF "?" \in text THEN 1 ELSE 0)
         IN IF pos > neg + 2
            THEN {Reaction(m, TRUE) : m \in randint(10, 20)}
            ELSE IF neg > pos + 2
            THEN {Reaction(m, FALSE) : m \in randint(-20, -8)}
            ELSE {Reaction(m, TRUE) : m \in randint(3, 8)}
                 \cup {Reaction(m, FALSE) : m \in randint(-6, -2)}

\* A value of the JSON object the service returned: num / den for a number, the number
\* written in a string for "numstr".
Json(type, num, den) == [type |-> type, num |-> num, den |-> den]

\* int(value): truncation toward zero for a float, 0 or 1 for a bool, the number of a
\* numeric string; TypeError or ValueError otherwise.
PyIntOk(v) == v.type \in {"int", "float", "true", "false", "numstr"}
PyInt(v) ==
    CASE v.type \in {"int", "numstr"} -> v.num
      [] v.type = "float" -> IF v.num >= 0 THEN v.num \div v.den ELSE -((-v.num) \div v.den)
      [] v.type = "true" -> 1
      [] v.type = "false" -> 0

\* bool(value)
PyBool(v) ==
    CASE v.type \in {"int", "float", "numstr"} -> v.num # 0
      [] v.type = "true" -> TRUE
      [] v.type \in {"false", "null", "list"} -> FALSE
      [] v.type = "str" -> TRUE

\* result.get(key, default)
Get_or(v, default) == IF v.type = "absent" THEN default ELSE v

ZeroChoices == {-5, -3, 3, 5, 8}

\* The parsing of the service's answer without the clamp to [-20,20].
ParseUnclamped(result) ==
    LET mood == PyInt(Get_or(result.mood_change, Json("int", 0, 1)))
    IN {Reaction(m, m > 0) : m \in IF mood = 0 THEN ZeroChoices ELSE {mood}}

\* analyze_with_groq, lines 492-514: the answer parsed into a result.
Parse(result) ==
    LET mood0 == PyInt(Get_or(result.mood_change, Json("int", 0, 1)))
        mood1 == Max(-20, Min(20, mood0))
    IN {LET is_pos0 == PyBool(Get_or(result.is_positive,
                                     Json(IF mood > 0 THEN "true" ELSE "false", 0, 1)))
            is_pos == IF mood > 0 THEN TRUE ELSE IF mood < 0 THEN FALSE ELSE is_pos0
        IN Reaction(mood, is_pos) : mood \in IF mood1 = 0 THEN ZeroChoices ELSE {mood1}}

\* analyze_with_groq: the local reaction when there is no key, the call fails, the status
\* is not 200 or the answer does not parse; else the parsed answer.
analyze_with_groq(response, text, prompt_type) ==
    IF response.kind # "object" \/ ~PyIntOk(Get_or(response.mood_change, Json("int", 0, 1)))
    THEN [source |-> "local", results |-> _local_ai_reaction(text, prompt_type)]
    ELSE [source |-> "service", results |-> Parse(response)]

\* One classification: nothing is stored.
analyze(response, text, prompt_type) ==
    /\ UNCHANGED <<pc, req>>
    /\ \E ai \in analyze_with_groq(response, text, prompt_type).results :
          StoreStep("analyze_with_groq", Nobody,
                    analyze_with_groq(response, text, prompt_type).source,
                    ai.mood_change, IF ai.is_positive THEN "True" ELSE "False", pets)

(***************************************************************************)
(* news_module.py: the provider.  A title is a sequence of characters, a   *)
(* character a number: 0 is white space, n > 0 a lower-case letter and -n  *)
(* the same letter in upper case.  A page is the outcome of the HTTP GET   *)
(* of one source, ok or not, with the anchors found in it; an anchor has   *)
(* its title, the length len the length filter sees, whether it holds a    *)
(* keyword of the blacklists (ignored), whether it passes the URL and      *)
(* topic-keyword filters (relevant) and the keywords of the classifier     *)
(* that occur in it (words).                                               *)
(***************************************************************************)
MAX_SEEN == 200

\* str.lower()
lower(title) == [i \in DOMAIN title |-> IF title[i] < 0 THEN -title[i] ELSE title[i]]

\* " ".join(t.split()): the words of t with one space between them.
RECURSIVE join_split(_, _)
join_split(t, i) ==
    IF i > Len(t) THEN <<>>
    ELSE IF t[i] # 0 THEN <<t[i]>> \o join_split(t, i + 1)
    ELSE IF i > 1 /\ t[i - 1] # 0 /\ (\E j \in (i + 1)..Len(t) : t[j] # 0)
    THEN <<0>> \o join_split(t, i + 1)
    ELSE join_split(t, i + 1)

\* normalized = " ".join(title.lower().split())
normalized(title) == join_split(lower(title), 1)

\* A duplicate check that never evicts.
_is_duplicate_unbounded(title, seen) ==
    IF normalized(title) \in seen
    THEN {[duplicate |-> TRUE, seen |-> seen]}
    ELSE {[duplicate |-> FALSE, seen |-> seen \cup {normalized(title)}]}

\* _is_duplicate: the answer and the history after it.  set.pop() removes an element of
\* its own choosing, so every element, the title just added included, may be the one.
_is_duplicate(title, seen) ==
    IF normalized(title) \in seen
    THEN {[duplicate |-> TRUE, seen |-> seen]}
    ELSE LET added == seen \cup {normalized(title)}
         IN IF Cardinality(added) > MAX_SEEN
            THEN {[duplicate |-> FALSE, seen |-> added \ {x}] : x \in added}
            ELSE {[duplicate |-> FALSE, seen |-> added]}

Sources == {"forbes", "stopgame", "ria_finance", "ria_politics"}

\* len(title) < 15 for Forbes, < 20 for the others; > 250 for all.
MinTitleLen(source) == IF source = "forbes" THEN 15 ELSE 20
MaxTitleLen == 250

\* fetch_forbes, fetch_stopgame, _fetch_ria_generic, the loop over the anchors: the
\* possible pairs of items and history.
RECURSIVE FetchLoop(_, _, _, _, _)
FetchLoop(anchors, items, seen, count, source) ==
    IF anchors = <<>> \/ Len(items) >= count
    THEN {[items |-> items, seen |-> seen]}
    ELSE LET a == Head(anchors) IN
         IF a.len < MinTitleLen(source) \/ a.len > MaxTitleLen
         THEN FetchLoop(Tail(anchors), items, seen, count, source)
         ELSE UNION {FetchLoop(Tail(anchors),
                               IF d.duplicate \/ a.ignored \/ ~a.relevant THEN items
                               ELSE Append(items, [title |-> a.title, summary |-> "",
                                                   source |-> source, words |-> a.words]),
                               d.seen, count, source) :
                       d \in _is_duplicate(a.title, seen)}

\* A fetcher: [] when the GET fails, else items[:count] of the loop.
Fetch(page, seen, count, source) ==
    IF ~page.ok THEN {[items |-> <<>>, seen |-> seen]}
    ELSE {[items |-> SubSeq(f.items, 1, Min(count, Len(f.items))), seen |-> f.seen] :
             f \in FetchLoop(page.anchors, <<>>, seen, count, source)}

\* The sources of "mix" in the order of the dict, StopGame deleted.
MixSources == <<"forbes", "ria_finance", "ria_politics">>

\* get_news_with_reaction, source == "mix": each fetcher is asked for max(1, count // 4).
RECURSIVE FetchMix(_, _, _, _, _)
FetchMix(names, pages, news, seen, count) ==
    IF names = <<>> THEN {[items |-> news, seen |-> seen]}
    ELSE UNION {FetchMix(Tail(names), pages, news \o f.items, f.seen, count) :
                  f \in Fetch(pages[Head(names)], seen, Max(1, count \div 4), Head(names))}

\* {**n, **ai}
Merge(n, ai) ==
    [k \in DOMAIN n \cup DOMAIN ai |-> IF k \in DOMAIN ai THEN ai[k] ELSE n[k]]

\* get_news_with_reaction, lines 561-570: the possible lists of results.
RECURSIVE Analyzed(_, _)
Analyzed(news, response) ==
    IF news = <<>> THEN {<<>>}
    ELSE {<<Merge(Head(news), ai)>> \o rest :
             ai \in analyze_with_groq(response, Head(news).words, "news").results,
             rest \in Analyzed(Tail(news), response)}

\* A count without the upper limit of 10.
CountUncapped(count) == Max(1, count)

\* count = max(1, min(count, 10))
Count(count) == Max(1, Min(count, 10))

\* get_news_with_reaction(count, source): the possible pairs of results and history.
\* An unknown source is read from Forbes.
NewsWithReaction(count, source, pages, response, seen) ==
    LET fetched ==
          IF source = "mix"
          THEN {[items |-> SubSeq(f.items, 1, Min(Count(count), Len(f.items))),
                 seen |-> f.seen] :
                   f \in FetchMix(MixSources, pages, <<>>, seen, Count(count))}
          ELSE LET name == IF source \in Sources THEN source ELSE "forbes"
               IN Fetch(pages[name], seen, Count(count), name)
    IN UNION {{[results |-> r, seen |-> f.seen] : r \in Analyzed(f.items, response)} :
                f \in fetched}

\* The list as the set of its positions and items.
Listing(results) == {<<i, results[i]>> : i \in DOMAIN results}

\* One step of the provider: no record is touched.
ProviderStep(op, text, arg, outcome, results, seen) ==
    /\ opsLeft > 0
    /\ opsLeft' = opsLeft - 1
    /\ _seen_news' = seen
    /\ last' = [op |-> op, user_id |-> Nobody, text |-> text, arg |-> arg,
                outcome |-> outcome, msgs |-> NoMsgs,
                listed |-> Listing(results), processed |-> {}, raised |-> FALSE]
    /\ UNCHANGED <<pets, pc, req, alive, ticksLeft, phase>>

\* get_news_with_reaction called by itself.
get_news_with_reaction(count, source, pages, response) ==
    /\ opsLeft > 0
    /\ \E out \in NewsWithReaction(count, source, pages, response, _seen_news) :
          ProviderStep("get_news_with_reaction", source, count, "list", out.results, out.seen)

\* clear_news_history
clear_news_history == ProviderStep("clear_news_history", "", 0, "None", <<>>, {})

\* get_weather_reaction: fetch_weather is awaited outside any try, so a failed GET raises
\* out of it; else the weather is merged with the classifier's result.
get_weather_reaction(weather, response) ==
    /\ opsLeft > 0
    /\ IF ~weather.ok
       THEN ProviderStep("get_weather_reaction", "", 0, "raised", <<>>, _seen_news)
       ELSE \E ai \in analyze_with_groq(response, weather.words, "weather").results :
               ProviderStep("get_weather_reaction",
                            analyze_with_groq(response, weather.words, "weather").source, 0,
                            "dict", <<Merge([temp |-> weather.temp], ai)>>, _seen_news)

\* A news request that leaves the mood alone.
NoMoodChange(news_list) == 0

\* _send_news_async, lines 914-916: total_mood_change += n.get("mood_change", 0)
RECURSIVE TotalMoodChange(_)
TotalMoodChange(news_list) ==
    IF news_list = <<>> THEN 0
    ELSE Head(news_list).mood_change + TotalMoodChange(Tail(news_list))

\* _send_news_async: without a pet nothing is fetched; else one item is asked of the
\* provider (an exception in it is caught and gives []), an empty list ends the request,
\* and the sum of the mood changes goes through db_apply_minus in one call.
_send_news_async(user_id, source, pages, response) ==
    /\ opsLeft > 0
    /\ \E out \in IF Exists(pets, user_id)
                   THEN NewsWithReaction(1, source, pages, response, _seen_news)
                   ELSE {[results |-> <<>>, seen |-> _seen_news]} :
       LET total_mood_change == TotalMoodChange(out.results)
           tbl == IF out.results = <<>> THEN pets
                  ELSE db_apply_minus(pets, user_id, 0, 0, -total_mood_change)
       IN /\ opsLeft' = opsLeft - 1
          /\ pets' = tbl
          /\ _seen_news' = out.seen
          /\ last' = [op |-> "_send_news_async", user_id |-> user_id, text |-> source,
                      arg |-> total_mood_change,
                      outcome |-> IF ~Exists(pets, user_id) THEN "no pet"
                                  ELSE IF out.results = <<>> THEN "none" ELSE "sent",
                      msgs |-> NoMsgs, listed |-> Listing(out.results),
                      processed |-> {}, raised |-> FALSE]
          /\ Track(tbl, NoMsgs, FALSE)
          /\ UNCHANGED <<pc, req, alive, ticksLeft>>

\* cb_news: available_sources, the sources each accessory opens.
available_sources ==
    [finance |-> {"ria_finance", "ria_politics", "forbes", "mix"},
     gaming |-> {"stopgame"}]

\* The answer of a callback that stops before any request to the provider.
Refused(op, user_id, text, outcome) ==
    /\ UNCHANGED <<pc, req>>
    /\ StoreStep(op, user_id, text, 0, outcome, pets)

\* A cb_news that asks for the news whatever the pet wears.
cb_news_open(user_id, source, pages, response) ==
    _send_news_async(user_id, source, pages, response)

\* cb_news: the source is refused unless the first worn accessory opens it; an accessory
\* that is no key of available_sources raises KeyError; else _send_news_async.
cb_news(user_id, source, pages, response) ==
    LET pet_inventory == db_get_pet_inventory(pets, user_id) IN
    IF pet_inventory = <<>> \/ pet_inventory[1] = "weather"
    THEN Refused("cb_news", user_id, source, "unavailable")
    ELSE IF pet_inventory[1] \notin DOMAIN available_sources
    THEN Refused("cb_news", user_id, source, "KeyError")
    ELSE IF source \notin available_sources[pet_inventory[1]]
    THEN Refused("cb_news", user_id, source, "unavailable")
    ELSE _send_news_async(user_id, source, pages, response)

(***************************************************************************)
(* Initial states and specifications.                                      *)
(***************************************************************************)
InitLocal ==
    /\ pc = [c \in Clients |-> "idle"]
    /\ req = [c \in Clients |-> [user_id |-> "", name |-> ""]]
    /\ alive = [l \in Loops |-> TRUE]
    /\ last = [op |-> "init", user_id |-> Nobody, text |-> "", arg |-> 0,
               outcome |-> "", msgs |-> NoMsgs, listed |-> {}, processed |-> {},
               raised |-> FALSE]
    /\ phase = AllNormal

\* The provider has just been loaded: its history is empty.
InitRest == InitLocal /\ _seen_news = {}

\* init_db on a new pets.db: the table is empty.
Init == pets = {} /\ opsLeft = MaxOps /\ ticksLeft = 0 /\ InitRest

\* A pets.db in which u1 has created a pet and u2 has none.
InitStats ==
    /\ pets = {NewRow("u1", "Tom")}
    /\ opsLeft = MaxStatOps /\ ticksLeft = 0 /\ InitRest

\* A pets.db at the start of the loops: u1's pet is new, u2's pet is hungry and its
\* owner is away.
InitSched ==
    /\ pets = {NewRow("u1", "Tom"), [NewRow("u2", "Rex") EXCEPT !.satiety = 15]}
    /\ opsLeft = MaxSchedOps /\ ticksLeft = MaxTicks /\ InitRest

\* Creation and deletion by concurrent request threads, with two updates that make a
\* record differ from a new one.
Next ==
    \/ \E c \in Clients, u \in Users, name \in Names : createPet_select(c, u, name)
    \/ \E c \in Clients : createPet_insert(c)
    \/ \E c \in Clients, u \in Users, name \in Names : db_create_pet_select(c, u, name)
    \/ \E c \in Clients : db_create_pet_insert(c)
    \/ \E c \in Clients, u \in Users : deletePetByUserId_select(c, u)
    \/ \E c \in Clients : deletePetByUserId_delete(c)
    \/ \E c \in Clients, u \in Users : db_delete_pet(c, u)
    \/ \E u \in Users : setSatiety(u, 15)
    \/ \E u \in Users : cb_feed(u)

Spec == Init /\ [][Next]_vars

\* Every operation that writes a stat or money, on existing and on missing users.
NextStats ==
    \/ \E u \in Users, a \in AmountInputs : setMoney(u, a)
    \/ \E u \in Users, n \in DeltaInputs : allMoneyMinus(u, n)
    \/ \E u \in Users, v \in StatInputs : setSatiety(u, v)
    \/ \E u \in Users, v \in StatInputs : setEnergy(u, v)
    \/ \E u \in Users, v \in StatInputs : setMood(u, v)
    \/ \E u \in Users, n \in DeltaInputs : allSatietyMinus(u, n)
    \/ \E u \in Users, n \in DeltaInputs : allEnergyMinus(u, n)
    \/ \E u \in Users, n \in DeltaInputs : allMoodMinus(u, n)
    \/ \E u \in Users : cb_feed(u)
    \/ \E u \in Users : cb_play(u)
    \/ \E u \in Users : cb_sleep(u)
    \/ \E u \in Users, item \in Items : cb_buy(u, item)
    \/ \E u \in Users, item \in Items : cb_wear(u, item)
    \/ \E u \in Users, d \in MoodChanges : send_news(u, d)
    \/ \E u \in Users, d \in MoodChanges : send_weather(u, d)
    \/ \E u \in Users : hourly_decay(u)
    \/ \E u \in Users : energy_recovery(u)

SpecStats == InitStats /\ [][NextStats]_vars

\* The three loops, with users changing their stats between ticks.
SchedInputs == {0, 15, 100}

NextSched ==
    \/ \E v \in SchedInputs : setSatiety("u1", v)
    \/ \E v \in SchedInputs : setEnergy("u1", v)
    \/ \E v \in SchedInputs : setMood("u1", v)
    \/ \E l \in Loops : TickListFails(l)
    \/ \E f \in Failures({"storage", "flags", "send"}) : task_hourly_decay(f[1], f[2])
    \/ \E f \in Failures({"storage"}) : task_energy_recovery(f[1], f[2])
    \/ \E f \in Failures({"flags", "send"}) : task_check_low_stats(f[1], f[2])

SpecSched == InitSched /\ [][NextSched]_vars

\* A mood delta and the delta that undoes it.  u1 and u2 start with the same mood and
\* only u1's pet is touched, so u2's mood is the mood u1 started from.
MaxRoundOps == 2
RoundTripMoods == StatLo..StatHi
RoundTripDeltas == {-150, -20, -10, -3, 3, 10, 20, 150}
RoundTripChanges == {-20, -3, 3, 20}

InitRoundTrip ==
    /\ \E m \in RoundTripMoods :
          pets = {[NewRow("u1", "Tom") EXCEPT !.mood = m],
                  [NewRow("u2", "Rex") EXCEPT !.mood = m]}
    /\ opsLeft = MaxRoundOps /\ ticksLeft = 0 /\ InitRest

NextRoundTrip ==
    \/ \E n \in RoundTripDeltas : allMoodMinus("u1", n)
    \/ \E d \in RoundTripChanges : send_news("u1", d)

SpecRoundTrip == InitRoundTrip /\ [][NextRoundTrip]_vars

\* The endpoints of the API, addressed to a user with a pet and to one without.
MaxApiOps == 3
NameInputs == {"Tom", "Bartholomew-XVI", "Bartholomew-XVII"}
StatesInputs == {"{}", "{sick: true}"}
ApiStatInputs == {-1, 50, 101}
ApiItems == {"weather"}

InitApi ==
    /\ pets = {NewRow("u1", "Tom")}
    /\ opsLeft = MaxApiOps /\ ticksLeft = 0 /\ InitRest

NextApi ==
    \/ \E u \in Users, name \in NameInputs : createPet_select("c1", u, name)
    \/ createPet_insert("c1")
    \/ \E u \in Users : deletePetByUserId_select("c2", u)
    \/ deletePetByUserId_delete("c2")
    \/ \E op \in GetOps, u \in Users : Get(op, u)
    \/ \E u \in Users, name \in NameInputs : setName(u, name)
    \/ \E u \in Users, states \in StatesInputs : setStates(u, states)
    \/ \E u \in Users, a \in AmountInputs : setMoney(u, a)
    \/ \E u \in Users, n \in DeltaInputs : allMoneyMinus(u, n)
    \/ \E u \in Users, v \in ApiStatInputs : setSatiety(u, v)
    \/ \E u \in Users, v \in ApiStatInputs : setEnergy(u, v)
    \/ \E u \in Users, v \in ApiStatInputs : setMood(u, v)
    \/ \E u \in Users : allSatietyMinus(u, 10)
    \/ \E u \in Users : allEnergyMinus(u, 10)
    \/ \E u \in Users : allMoodMinus(u, 10)
    \/ \E u \in Users, item \in ApiItems : addPetItem(u, item)
    \/ \E u \in Users, item \in ApiItems : removePetItem(u, item)
    \/ \E u \in Users, item \in ApiItems : addUserItem(u, item)
    \/ \E u \in Users, item \in ApiItems : removeUserItem(u, item)

SpecApi == InitApi /\ [][NextApi]_vars

\* The two inventories of one pet, through the API and through the bot.
MaxItemOps == 3
ItemInputs == {"finance", "weather"}

InitItems ==
    /\ pets = {NewRow("u1", "Tom")}
    /\ opsLeft = MaxItemOps /\ ticksLeft = 0 /\ InitRest

NextItems ==
    \/ \E u \in Users, item \in ItemInputs : addPetItem(u, item)
    \/ \E u \in Users, item \in ItemInputs : removePetItem(u, item)
    \/ \E u \in Users, item \in ItemInputs : addUserItem(u, item)
    \/ \E u \in Users, item \in ItemInputs : removeUserItem(u, item)
    \/ \E u \in Users, item \in ItemInputs : cb_buy(u, item)
    \/ \E u \in Users, item \in ItemInputs : cb_wear(u, item)
    \/ \E u \in Users, item \in ItemInputs : db_remove_user_item(u, item)

SpecItems == InitItems /\ [][NextItems]_vars

\* Ticks of the hourly decay and of the energy recovery over two pets: u1's pet with any
\* of a set of stat values, u2's pet new.
MaxDecayTicks == 2
TickSatieties == {0, 9, 10, 19, 55, 100}
TickMoods == {0, 3, 100}
TickEnergies == {0, 95, 100}

InitTicks ==
    /\ \E s \in TickSatieties, m \in TickMoods, e \in TickEnergies :
          pets = {[NewRow("u1", "Tom") EXCEPT !.satiety = s, !.mood = m, !.energy = e],
                  NewRow("u2", "Rex")}
    /\ opsLeft = 0 /\ ticksLeft = MaxDecayTicks /\ InitRest

NextTicks ==
    \/ \E l \in {"hourly_decay", "energy_recovery"} : TickListFails(l)
    \/ \E f \in Failures({"storage", "flags", "send"}) : task_hourly_decay(f[1], f[2])
    \/ \E f \in Failures({"storage"}) : task_energy_recovery(f[1], f[2])

SpecTicks == InitTicks /\ [][NextTicks]_vars

\* Classifications of news and weather texts, with any answer of the service.
MaxClassifyOps == 3
JsonNumbers ==
    {Json("int", n, 1) : n \in {-100, -21, -20, -1, 0, 1, 20, 21, 100}}
    \cup {Json("float", n, 2) : n \in {-41, -1, 1, 15, 41}}
    \cup {Json("numstr", 15, 1)}
JsonOthers ==
    {Json(t, 0, 1) : t \in {"absent", "null", "true", "false", "list", "str"}}
Responses ==
    {[kind |-> k, mood_change |-> Json("absent", 0, 1), is_positive |-> Json("absent", 0, 1)] :
        k \in {"no key", "exception", "status", "not json", "not object"}}
    \cup {[kind |-> "object", mood_change |-> m, is_positive |-> p] :
            m \in JsonNumbers \cup JsonOthers,
            p \in {Json(t, 0, 1) : t \in {"absent", "true", "false", "str"}}}
Texts ==
    {{}, {"rost", "uspeh"}, {"rost", "uspeh", "pobeda", "krizis", "!"}, {"rost", "?"},
     {"krizis", "ubytok"}, {"padenie", "krizis", "ubytok", "rost", "?"}, {"krizis", "!"},
     {"solnechno", "25c"}, {"29c", "dozhd"}, {"dozhd", "4c"}, {"sneg"}, {"0c"}, {"10c"}}

InitClassify ==
    /\ pets = {NewRow("u1", "Tom")}
    /\ opsLeft = MaxClassifyOps /\ ticksLeft = 0 /\ InitRest

NextClassify ==
    \E response \in Responses, text \in Texts, prompt_type \in {"news", "weather"} :
       analyze(response, text, prompt_type)

SpecClassify == InitClassify /\ [][NextClassify]_vars

\* Deletion and re-creation of a pet that has been played with: u1's record differs from
\* a new one in every column but user_id.
MaxRecreateOps == 4

UsedRow ==
    [user_id |-> "u1", name |-> "Tom", money |-> 5, satiety |-> 15, energy |-> 90,
     mood |-> 60, states |-> "{sick: true}", PetInventory |-> <<"weather">>,
     UserInventory |-> <<"weather">>,
     warned_satiety |-> 1, warned_mood |-> 1, warned_energy |-> 1]

InitRecreate ==
    /\ pets = {UsedRow}
    /\ opsLeft = MaxRecreateOps /\ ticksLeft = 0 /\ InitRest

NextRecreate ==
    \/ \E c \in Clients, u \in Users : createPet_select(c, u, "Rex")
    \/ \E c \in Clients : createPet_insert(c)
    \/ \E c \in Clients, u \in Users : db_create_pet_select(c, u, "Rex")
    \/ \E c \in Clients : db_create_pet_insert(c)
    \/ \E c \in Clients, u \in Users : deletePetByUserId_select(c, u)
    \/ \E c \in Clients : deletePetByUserId_delete(c)
    \/ \E c \in Clients, u \in Users : db_delete_pet(c, u)
    \/ \E u \in Users : cb_feed(u)

SpecRecreate == InitRecreate /\ [][NextRecreate]_vars

\* Hourly ticks over pets at and near 0, with the flags in either state: u1's pet with
\* any of a set of values, u2's pet fed back to 50 after a satiety warning.
MaxWarnTicks == 2
MaxWarnOps == 1
WarnSatieties == {0, 5, 10, 11, 50}
WarnMoods == {0, 5, 6, 50}

InitWarn ==
    /\ \E s \in WarnSatieties, m \in WarnMoods, ws \in {0, 1}, wm \in {0, 1} :
          pets = {[NewRow("u1", "Tom") EXCEPT !.satiety = s, !.mood = m,
                                               !.warned_satiety = ws, !.warned_mood = wm],
                  [NewRow("u2", "Rex") EXCEPT !.satiety = 50, !.warned_satiety = 1]}
    /\ opsLeft = MaxWarnOps /\ ticksLeft = MaxWarnTicks /\ InitRest

NextWarn ==
    \/ cb_feed("u1")
    \/ cb_play("u1")
    \/ TickListFails("hourly_decay")
    \/ \E f \in Failures({"storage", "flags", "send"}) : task_hourly_decay(f[1], f[2])

SpecWarn == InitWarn /\ [][NextWarn]_vars

\* Sweep ticks over pets with one or two low stats, some already flagged: u1's pet with
\* any of a set of values, u2's pet hungry.
MaxSweepTicks == 2
MaxSweepOps == 1
SweepSatieties == {0, 15, 30, 31}
SweepMoods == {15, 100}
SweepInputs == {15, 100}

InitSweep ==
    /\ \E s \in SweepSatieties, m \in SweepMoods, ws \in {0, 1} :
          pets = {[NewRow("u1", "Tom") EXCEPT !.satiety = s, !.mood = m,
                                               !.warned_satiety = ws],
                  [NewRow("u2", "Rex") EXCEPT !.satiety = 15]}
    /\ opsLeft = MaxSweepOps /\ ticksLeft = MaxSweepTicks /\ InitRest

NextSweep ==
    \/ \E v \in SweepInputs : setMood("u1", v)
    \/ \E v \in SweepInputs : setEnergy("u1", v)
    \/ TickListFails("check_low_stats")
    \/ \E f \in Failures({"flags", "send"}) : task_check_low_stats(f[1], f[2])

SpecSweep == InitSweep /\ [][NextSweep]_vars

\* Two calls on u1's pet whose statements alternate: a scheduler function in thread c1,
\* and the energy recovery or a user action's db_apply_minus in thread c2.  u2's pet
\* starts with the same stats and is left alone.
MaxRaceOps == 4
RaceSatieties == {0, 5, 95, 100}
RaceEnergies == {0, 50, 95, 100}
RaceMoods == {0, 3, 50, 100}
\* cb_feed, cb_play (two calls) and a news or weather reaction of -20 or 20.
RaceArgs ==
    {[satiety |-> -FeedSatiety, energy |-> 0, mood |-> 0],
     [satiety |-> 0, energy |-> PlayEnergy, mood |-> 0],
     [satiety |-> 0, energy |-> 0, mood |-> -PlayMood],
     [satiety |-> 0, energy |-> 0, mood |-> 20],
     [satiety |-> 0, energy |-> 0, mood |-> -20]}

InitRace ==
    /\ \E s \in RaceSatieties, e \in RaceEnergies, m \in RaceMoods :
          pets = {[NewRow("u1", "Tom") EXCEPT !.satiety = s, !.energy = e, !.mood = m],
                  [NewRow("u2", "Rex") EXCEPT !.satiety = s, !.energy = e, !.mood = m]}
    /\ opsLeft = MaxRaceOps /\ ticksLeft = 0 /\ InitRest

NextRace ==
    \/ apply_hourly_decay_select("c1", "u1")
    \/ apply_hourly_decay_update("c1")
    \/ \E c \in Clients : apply_energy_recovery_select(c, "u1")
    \/ \E c \in Clients : apply_energy_recovery_update(c)
    \/ \E n \in RaceArgs : db_apply_minus_select("c2", "u1", n)
    \/ db_apply_minus_update("c2")

SpecRace == InitRace /\ [][NextRace]_vars

\* The anchor of a headline of 30 characters that passes every filter.
Anchor(title) ==
    [title |-> title, len |-> 30, ignored |-> FALSE, relevant |-> TRUE, words |-> {}]

\* The same page with the anchors `anchors` on every source.
Pages(anchors) == [source \in Sources |-> [ok |-> TRUE, anchors |-> anchors]]

\* The service answers every headline with a mood_change of 15.
Answer15 ==
    [kind |-> "object", mood_change |-> Json("int", 15, 1), is_positive |-> Json("true", 0, 1)]

\* The history after n other titles.
Filler(n) == {<<100 + i>> : i \in 1..n}

\* Fetch cycles that show one headline each, on a history that is empty, one short of
\* full or full.  "a b", "A  b" and " a B " are one title.
MaxDedupOps == 2
DedupTitles == {<<1, 0, 2>>, <<-1, 0, 0, 2>>, <<0, 1, 0, -2, 0>>}
DedupFills == {0, MAX_SEEN - 1, MAX_SEEN}

InitDedup ==
    /\ pets = {NewRow("u1", "Tom")}
    /\ \E n \in DedupFills : _seen_news = Filler(n)
    /\ opsLeft = MaxDedupOps /\ ticksLeft = 0 /\ InitLocal

NextDedup ==
    \/ \E title \in DedupTitles :
          get_news_with_reaction(1, "forbes", Pages(<<Anchor(title)>>), Answer15)
    \/ clear_news_history

SpecDedup == InitDedup /\ [][NextDedup]_vars

\* Requests to the provider.  The long page has twelve headlines and is classified by
\* the service; the short page has a headline that is too short, one the filters drop,
\* one that is too long, one written twice and two more that pass.
MaxNewsOps == 2
NewsCounts == {-1, 11}
NewsSources == {"forbes", "stopgame", "mix", "bbc"}
LongPage == [i \in 1..12 |-> Anchor(<<200 + i>>)]
ShortPage ==
    <<[title |-> <<1>>, len |-> 17, ignored |-> FALSE, relevant |-> TRUE, words |-> {}],
      [title |-> <<2>>, len |-> 40, ignored |-> TRUE, relevant |-> TRUE, words |-> {"rost"}],
      [title |-> <<3, 0, 4>>, len |-> 40, ignored |-> FALSE, relevant |-> TRUE, words |-> {"rost", "uspeh"}],
      [title |-> <<5>>, len |-> 300, ignored |-> FALSE, relevant |-> TRUE, words |-> {}],
      [title |-> <<-3, 0, 0, 4>>, len |-> 41, ignored |-> FALSE, relevant |-> TRUE, words |-> {"rost", "uspeh"}],
      [title |-> <<6>>, len |-> 40, ignored |-> FALSE, relevant |-> TRUE, words |-> {"krizis", "ubytok"}]>>
NoPage == [ok |-> FALSE, anchors |-> <<>>]
ShortPages ==
    {Pages(ShortPage),
     [Pages(ShortPage) EXCEPT !["forbes"] = NoPage],
     [source \in Sources |-> NoPage]}
AnswerLow ==
    [kind |-> "object", mood_change |-> Json("int", -100, 1),
     is_positive |-> Json("absent", 0, 1)]
NoAnswer ==
    [kind |-> "exception", mood_change |-> Json("absent", 0, 1),
     is_positive |-> Json("absent", 0, 1)]
Weathers ==
    {[ok |-> FALSE, temp |-> 0, words |-> {}],
     [ok |-> TRUE, temp |-> 25, words |-> {"solnechno", "25c"}],
     [ok |-> TRUE, temp |-> 4, words |-> {"dozhd", "4c"}]}

InitNews ==
    /\ pets = {NewRow("u1", "Tom")}
    /\ opsLeft = MaxNewsOps /\ ticksLeft = 0 /\ InitRest

NextNews ==
    \/ \E count \in NewsCounts, source \in NewsSources :
          get_news_with_reaction(count, source, Pages(LongPage), Answer15)
    \/ get_news_with_reaction(8, "mix", Pages(LongPage), Answer15)
    \/ \E count \in {1, 2}, source \in {"ria_politics", "mix"}, pages \in ShortPages :
          get_news_with_reaction(count, source, pages, AnswerLow)
    \/ get_news_with_reaction(1, "ria_finance", Pages(ShortPage), NoAnswer)
    \/ \E weather \in Weathers, response \in {Answer15, NoAnswer} :
          get_weather_reaction(weather, response)
    \/ clear_news_history

SpecNews == InitNews /\ [][NextNews]_vars

\* News requests of the bot's users: u1 has a pet, u2 has none.
MaxRequestOps == 2
RequestMoods == {0, 50, 90}

InitRequest ==
    /\ \E m \in RequestMoods : pets = {[NewRow("u1", "Tom") EXCEPT !.mood = m]}
    /\ opsLeft = MaxRequestOps /\ ticksLeft = 0 /\ InitRest

NextRequest ==
    \/ \E u \in Users, source \in {"forbes", "mix"}, pages \in ShortPages,
          response \in {Answer15, AnswerLow} :
          _send_news_async(u, source, pages, response)
    \/ _send_news_async("u1", "stopgame", Pages(ShortPage), NoAnswer)

SpecRequest == InitRequest /\ [][NextRequest]_vars

\* Fetch cycles on a page whose headlines are, in this order: too short, blacklisted,
\* off topic, and three that pass every filter; the same page without the first three;
\* and the first page while Forbes fails.
MaxFilterOps == 2
FilterCounts == {1, 2, 4}
FilterSources == {"forbes", "stopgame", "ria_finance", "mix"}
FilterPage ==
    <<[title |-> <<1>>, len |-> 10, ignored |-> FALSE, relevant |-> TRUE, words |-> {}],
      [title |-> <<2>>, len |-> 40, ignored |-> TRUE, relevant |-> TRUE, words |-> {}],
      [title |-> <<7>>, len |-> 40, ignored |-> FALSE, relevant |-> FALSE, words |-> {}],
      Anchor(<<3>>), Anchor(<<4>>), Anchor(<<5>>)>>
FilterPages ==
    {Pages(FilterPage),
     Pages(SubSeq(FilterPage, 4, 6)),
     [Pages(FilterPage) EXCEPT !["forbes"] = NoPage]}

InitFilter ==
    /\ pets = {NewRow("u1", "Tom")}
    /\ opsLeft = MaxFilterOps /\ ticksLeft = 0 /\ InitRest

NextFilter ==
    \/ \E count \in FilterCounts, source \in FilterSources, pages \in FilterPages :
          get_news_with_reaction(count, source, pages, Answer15)
    \/ clear_news_history

SpecFilter == InitFilter /\ [][NextFilter]_vars

\* Feeding and playing with one pet, whose stats and purse start at the edges of the
\* guards; u2 has no pet.
MaxCareOps == 2
CareSatieties == {0, 85, 95, 100}
CareEnergies == {0, 9, 10, 50}
CareMoods == {0, 95, 100}
CareMoneys == {0, 1, 100}

InitCare ==
    /\ \E s \in CareSatieties, e \in CareEnergies, m \in CareMoods, c \in CareMoneys :
          pets = {[NewRow("u1", "Tom") EXCEPT
                      !.satiety = s, !.energy = e, !.mood = m, !.money = c]}
    /\ opsLeft = MaxCareOps /\ ticksLeft = 0 /\ InitRest

NextCare ==
    \/ \E u \in Users : cb_feed(u)
    \/ \E u \in Users : cb_play(u)

SpecCare == InitCare /\ [][NextCare]_vars

\* Two buy requests of u1 in two threads, one after the other or with their statements
\* alternating, for the same item or for two.  u2's pet starts with the same money and
\* inventory and is left alone.
MaxBuyOps == 12
BuyMoneys == {50, 100, 200, 250}
BuyItems == {"finance", "gaming"}
BuyInventories == {<<>>, <<"finance">>}

InitBuy ==
    /\ \E m \in BuyMoneys, inv \in BuyInventories :
          pets = {[NewRow("u1", "Tom") EXCEPT !.money = m, !.UserInventory = inv],
                  [NewRow("u2", "Rex") EXCEPT !.money = m, !.UserInventory = inv]}
    /\ opsLeft = MaxBuyOps /\ ticksLeft = 0 /\ InitRest

NextBuy ==
    \/ \E c \in Clients, item \in BuyItems : cb_buy_get_pet(c, "u1", item)
    \/ \E c \in Clients : cb_buy_get_inventory(c)
    \/ \E c \in Clients : cb_buy_add_money_select(c)
    \/ \E c \in Clients : cb_buy_add_money_update(c)
    \/ \E c \in Clients : cb_buy_add_user_item_select(c)
    \/ \E c \in Clients : cb_buy_add_user_item_update(c)

SpecBuy == InitBuy /\ [][NextBuy]_vars

\* News and weather requests of a pet that wears nothing, one accessory, an item that
\* is no accessory, or the two items an addPetItem after a wear leaves; u2 has no pet.
MaxGateOps == 2
GateWorn ==
    {<<>>, <<"finance">>, <<"gaming">>, <<"weather">>, <<"hat">>, <<"gaming", "finance">>}
GateSources == Sources \cup {"mix", "weather"}
GatePages == Pages(<<Anchor(<<3>>), Anchor(<<4>>)>>)

InitGate ==
    /\ \E worn \in GateWorn :
          pets = {[NewRow("u1", "Tom") EXCEPT !.mood = 50, !.PetInventory = worn]}
    /\ opsLeft = MaxGateOps /\ ticksLeft = 0 /\ InitRest

NextGate ==
    \/ \E u \in Users, source \in GateSources : cb_news(u, source, GatePages, Answer15)
    \/ \E u \in Users : send_weather(u, 15)
    \/ \E u \in Users, item \in {"finance", "weather"} : cb_wear(u, item)

SpecGate == InitGate /\ [][NextGate]_vars

\* One tick of a loop in thread c1 while the users delete their pets through thread
\* c2.  u1's pet is one tick from hunger or is fine, u2's pet is low on satiety.
MaxDeleteOps == 12
DeleteSatieties == {10, 15, 100}

InitDelete ==
    /\ \E s \in DeleteSatieties :
          pets = {[NewRow("u1", "Tom") EXCEPT !.satiety = s],
                  [NewRow("u2", "Rex") EXCEPT !.satiety = 15]}
    /\ opsLeft = MaxDeleteOps /\ ticksLeft = 0 /\ InitRest

NextDelete ==
    \/ \E l \in Loops : loop_list("c1", l)
    \/ loop_select("c1")
    \/ loop_update("c1")
    \/ loop_reselect("c1")
    \/ loop_flags("c1")
    \/ loop_row("c1")
    \/ \E u \in Users : db_delete_pet("c2", u)

SpecDelete == InitDelete /\ [][NextDelete]_vars

\* Ticks of the two detectors while every notification to u1 fails to be sent; u1 may
\* feed the pet between ticks.  u2's pet is hungry and its owner can be reached.
MaxUndeliveredTicks == 3
MaxUndeliveredOps == 1
UndeliveredSatieties == {10, 15, 50}

InitUndelivered ==
    /\ \E s \in UndeliveredSatieties :
          pets = {[NewRow("u1", "Tom") EXCEPT !.satiety = s],
                  [NewRow("u2", "Rex") EXCEPT !.satiety = 15]}
    /\ opsLeft = MaxUndeliveredOps /\ ticksLeft = MaxUndeliveredTicks /\ InitRest

NextUndelivered ==
    \/ cb_feed("u1")
    \/ task_hourly_decay("u1", "send")
    \/ task_check_low_stats("u1", "send")

SpecUndelivered == InitUndelivered /\ [][NextUndelivered]_vars

(***************************************************************************)
(* Properties.                                                             *)
(***************************************************************************)
CreateSelects == {"createPet_select", "db_create_pet_select"}
CreateInserts == {"createPet_insert", "db_create_pet_insert"}
AlreadyExists(op) == IF op = "createPet_select" THEN "409" ELSE "None"

\* The sweep tick just taken ran to its end without any exception.
CleanSweep == last'.op = "check_low_stats" /\ ~last'.raised

\* The messages of the step just taken that went to user u and list stat s.
AlertsFor(u, s) == {m \in last'.msgs : m.user_id = u /\ s \in m.stats}

\* C1: every stored pet's satiety, energy and mood are integers in [0,100] after any
\* sequence of the operations that write them.
C1_StatsInRange ==
    \A r \in pets : \A s \in Stats : r[s] \in StatLo..StatHi

\* A delta update whose result had to be cut back to 100 has just run.
C1_Witness ==
    /\ last.op = "_send_news_async" /\ last.outcome = "sent" /\ last.arg > 0
    /\ \E r \in pets : r.user_id = last.user_id /\ r.mood = StatHi

\* C2: every stored pet's money is >= 0 after any sequence of setMoney, allMoneyMinus,
\* feed, play and buy.
C2_MoneyNonNegative ==
    \A r \in pets : r.money >= 0

\* C3: a sweep tick that finds a stat above its threshold with the warned flag set
\* leaves the flag cleared and sends no alert for that stat, whatever the other stats.
C3_SweepClearsOnRecovery ==
    [][CleanSweep =>
         \A r \in pets : \A s \in Stats :
            (r[s] > Threshold(s) /\ r[WarnedColumn(s)] # 0) =>
               /\ \A q \in RowsOf(pets', r.user_id) : q[WarnedColumn(s)] = 0
               /\ AlertsFor(r.user_id, s) = {}]_vars

\* C4: after an alert for a stat, no tick of either detector sends another alert for it
\* while the stat has stayed at or below its threshold.
C4_NoRepeatWhileLow ==
    [][\A p \in Pairs : phase[p] = "alerted" => AlertsFor(p[1], p[2]) = {}]_vars

\* C5: a sweep tick that finds a stat at or below its threshold (0 included) with the
\* warned flag clear sends that user exactly one message listing the stat and sets the flag.
C5_SweepAlertsLowStat ==
    [][CleanSweep =>
         \A r \in pets : \A s \in Stats :
            (r[s] <= Threshold(s) /\ r[WarnedColumn(s)] = 0) =>
               /\ Cardinality(AlertsFor(r.user_id, s)) = 1
               /\ \A q \in RowsOf(pets', r.user_id) : q[WarnedColumn(s)] = 1]_vars

\* C6: once a sweep tick has run while an alerted stat was recovered, the next sweep tick
\* that finds the stat below its threshold (and above 0) sends exactly one alert for it.
C6_RearmedByRecovery ==
    [][CleanSweep =>
         \A r \in pets : \A s \in Stats :
            (phase[<<r.user_id, s>>] = "rearmed" /\ 0 < r[s] /\ r[s] < Threshold(s)) =>
               Cardinality(AlertsFor(r.user_id, s)) = 1]_vars

\* C7: a tick of any loop processes every user it listed, whatever exception one of
\* them met.
C7_TickProcessesAll ==
    last.op \in Loops => last.processed = last.listed

\* C8: no exception raised during a tick ends a loop.
C8_LoopsNeverEnd ==
    \A l \in Loops : alive[l]

\* C9: a create request whose existence check finds a record ends there with
\* AlreadyExists (409 in the API, None in the bot), and no statement of a create
\* request changes a table that holds a record of that user.
C9_CreateExistingRejected ==
    [][/\ (last'.op \in CreateSelects /\ Exists(pets, last'.user_id)) =>
             (pets' = pets /\ pc' = pc /\ last'.outcome = AlreadyExists(last'.op))
       /\ (last'.op \in CreateInserts /\ Exists(pets, last'.user_id)) =>
             pets' = pets]_vars

\* A create request has just been refused for a user whose record is no longer a new one.
C9_Witness ==
    /\ last.op = "createPet_select" /\ last.outcome = "409"
    /\ \E r \in pets : r.user_id = last.user_id /\ r.satiety # DefaultStat

\* C10: the table never holds two rows with the same user_id.
C10_OneRecordPerUser ==
    \A u \in Users : Cardinality(RowsOf(pets, u)) <= 1

\* Two create requests passed the existence check and the second INSERT was refused.
C10_Witness ==
    /\ last.op \in CreateInserts /\ last.outcome = "IntegrityError"
    /\ Cardinality(RowsOf(pets, last.user_id)) = 1

\* The value x cut back into [0,100].
Cut(x) == IF x < 0 THEN 0 ELSE IF x > 100 THEN 100 ELSE x

\* The stat a delta endpoint of the API writes.
DeltaField(op) ==
    CASE op = "allSatietyMinus" -> "satiety"
      [] op = "allEnergyMinus" -> "energy"
      [] op = "allMoodMinus" -> "mood"

\* The step just taken was operation op on the record r and went through.
Did(op, r, outcome) ==
    last'.op = op /\ last'.user_id = r.user_id /\ last'.outcome = outcome

\* C11: a stat delta with any integer n sets the stat to max(0, min(100, old - n)), so a
\* positive n never raises and a negative n never lowers it (API deltas and db_apply_minus
\* as the news and weather reactions call it); the money delta sets money to
\* max(0, old - n), with no upper bound.
C11_DeltaFormulas ==
    [][\A r \in pets : \A q \in RowsOf(pets', r.user_id) :
          /\ \A op \in {"allSatietyMinus", "allEnergyMinus", "allMoodMinus"} :
                Did(op, r, "200") =>
                   /\ q[DeltaField(op)] = Cut(r[DeltaField(op)] - last'.arg)
                   /\ last'.arg > 0 => q[DeltaField(op)] <= r[DeltaField(op)]
                   /\ last'.arg < 0 => q[DeltaField(op)] >= r[DeltaField(op)]
          /\ \A op \in {"_send_news_async", "_send_weather_async"} :
                Did(op, r, "sent") =>
                   /\ q.mood = Cut(r.mood - (-last'.arg))
                   /\ q.satiety = Cut(r.satiety - 0) /\ q.energy = Cut(r.energy - 0)
          /\ Did("allMoneyMinus", r, "200") =>
                q.money = (IF r.money - last'.arg < 0 THEN 0 ELSE r.money - last'.arg)]_vars

\* A money delta with a negative n has just taken money above every stat's upper bound,
\* and a stat delta has been cut back at an end of the range.
C11_Witness ==
    /\ last.op = "allMoneyMinus" /\ last.outcome = "200" /\ last.arg < 0
    /\ \E r \in pets : r.user_id = last.user_id /\ r.money > StatHi
    /\ \E r \in pets : r.satiety = StatLo /\ r.mood < StatHi

\* The step st applied a mood delta to u1's pet, and the n it subtracted.
MoodStep(st) ==
    /\ st.user_id = "u1"
    /\ \/ st.op = "allMoodMinus" /\ st.outcome = "200"
       \/ st.op = "_send_news_async" /\ st.outcome = "sent"
MoodDelta(st) == IF st.op = "allMoodMinus" THEN st.arg ELSE -st.arg

\* C12: from mood m, the mood delta d followed by the mood delta -d gives m again when
\* m - d lies in [0,100], and clamp(clamp(m - d) + d) in every case.
C12_MoodRoundTrip ==
    [][(/\ opsLeft = MaxRoundOps - 1
        /\ MoodStep(last) /\ MoodStep(last')
        /\ MoodDelta(last') = -MoodDelta(last)) =>
          LET m == fetchone(pets, "u2").mood
              d == MoodDelta(last)
              after == fetchone(pets', "u1").mood
          IN /\ (0 <= m - d /\ m - d <= 100) => after = m
             /\ after = Cut(Cut(m - d) + d)]_vars

\* From mood 50 the delta -10 and then the delta 10 have run (mood 60 in between), and
\* the mood is 50 again.
C12_Witness ==
    /\ opsLeft = MaxRoundOps - 2
    /\ last.op = "allMoodMinus" /\ last.outcome = "200" /\ last.arg = 10
    /\ fetchone(pets, "u2").mood = 50 /\ fetchone(pets, "u1").mood = 50

\* The stat an absolute set of the API writes.
SetField(op) ==
    CASE op = "setSatiety" -> "satiety"
      [] op = "setEnergy" -> "energy"
      [] op = "setMood" -> "mood"

\* C13: setSatiety, setEnergy and setMood with a value outside [0,100] return InvalidRange
\* (400) and change no record; with a value inside [0,100] on an existing user they set
\* that stat to the value and change nothing else.
C13_SetAbsolute ==
    [][\A op \in {"setSatiety", "setEnergy", "setMood"} :
          last'.op = op =>
             /\ (last'.arg < 0 \/ last'.arg > 100) =>
                   (last'.outcome = "400" /\ pets' = pets)
             /\ \A r \in pets :
                   (r.user_id = last'.user_id /\ 0 <= last'.arg /\ last'.arg <= 100) =>
                      pets' = (pets \ {r}) \cup {[r EXCEPT ![SetField(op)] = last'.arg]}]_vars

\* setMood with 101 has just been refused for a user who has a pet.
C13_Witness ==
    /\ last.op = "setMood" /\ last.arg = 101 /\ last.outcome = "400"
    /\ Exists(pets, last.user_id)

\* The API operations that expect an existing record (for the delete, the statement
\* that looks for it).
ApiOps ==
    GetOps \cup
    {"setMoney", "allMoneyMinus", "setName", "setStates", "setSatiety", "setEnergy",
     "setMood", "allSatietyMinus", "allEnergyMinus", "allMoodMinus", "addPetItem",
     "removePetItem", "addUserItem", "removeUserItem", "deletePetByUserId_select"}

\* The step just taken was an API operation addressed to a user without a record.
OnMissing == last'.op \in ApiOps /\ ~Exists(pets, last'.user_id)

\* The argument of step st is one the endpoint refuses: a stat value outside [0,100] or
\* a name longer than 15.
Invalid(st) ==
    \/ st.op \in {"setSatiety", "setEnergy", "setMood"} /\ (st.arg < 0 \/ st.arg > 100)
    \/ st.op = "setName" /\ Len(st.text) > 15

\* C14: every read, update or delete addressed to a user_id without a record returns
\* NotFound (404) and creates no record, for every argument value.
C14_MissingUserNotFound ==
    [][OnMissing => (pets' = pets /\ last'.outcome = "404")]_vars

\* C14, amended: every API read, update or delete addressed to a user_id without a record
\* creates no record and returns NotFound (404), except that an out-of-range stat value
\* or an over-long name is refused first with 400.
C14_MissingUserNotFoundUnlessInvalid ==
    [][OnMissing =>
         /\ pets' = pets
         /\ last'.outcome = (IF Invalid(last') THEN "400" ELSE "404")]_vars

\* setSatiety with 101 has just been refused with 400 for a user without a record.
C14_Witness ==
    /\ last.op = "setSatiety" /\ last.arg = 101 /\ last.outcome = "400"
    /\ ~Exists(pets, last.user_id)

\* C15: every name stored through createPet and setName has length <= 15, and setName
\* with a longer name is refused (400) and leaves the table unchanged.
C15_NameLength ==
    [][/\ \A r \in pets' : Len(r.name) <= 15
       /\ (last'.op = "setName" /\ Len(last'.text) > 15) =>
             (last'.outcome = "400" /\ pets' = pets)]_vars

\* C16: after any sequence of addPetItem, removePetItem and wear each pet wears at most one
\* item, and addPetItem(item) leaves the worn list equal to [item].
C16_OneWornItem ==
    [][/\ \A r \in pets' : Len(r.PetInventory) <= 1
       /\ (last'.op = "addPetItem" /\ last'.outcome = "200") =>
             \A r \in RowsOf(pets', last'.user_id) : r.PetInventory = <<last'.text>>]_vars

\* The inventory column a remove operation works on.
RemoveColumn(op) == IF op = "removePetItem" THEN "PetInventory" ELSE "UserInventory"

\* after is before without one occurrence of item, the other items in their order.
OneRemoved(before, after, item) ==
    \E i \in 1..Len(before) :
       /\ before[i] = item
       /\ after = SubSeq(before, 1, i - 1) \o SubSeq(before, i + 1, Len(before))

\* Step st ended by signalling that the item is not in the inventory.
SignalsItemNotFound(st) ==
    IF st.op = "db_remove_user_item" THEN st.outcome # "list" ELSE st.outcome = "404 item"

\* Step st ran to its normal end.
Completed(st) ==
    IF st.op = "db_remove_user_item" THEN st.outcome = "list" ELSE st.outcome = "200"

\* C17: removing an item that is not in the inventory signals ItemNotFound and leaves the
\* inventory unchanged; removing one that is there completes and removes exactly one
\* occurrence of it, in the API (removePetItem, removeUserItem) and in the bot
\* (db_remove_user_item).
C17_RemoveItem ==
    [][\A op \in {"removePetItem", "removeUserItem", "db_remove_user_item"} :
          \A r \in pets :
             (last'.op = op /\ last'.user_id = r.user_id) =>
                LET before == r[RemoveColumn(op)]
                    absent == \A i \in 1..Len(before) : before[i] # last'.text
                IN IF absent
                   THEN SignalsItemNotFound(last') /\ pets' = pets
                   ELSE /\ Completed(last')
                        /\ \E after \in {q[RemoveColumn(op)] : q \in RowsOf(pets', r.user_id)} :
                              /\ OneRemoved(before, after, last'.text)
                              /\ pets' = (pets \ {r}) \cup
                                            {[r EXCEPT ![RemoveColumn(op)] = after]}]_vars

\* The step just taken was a tick of loop l whose listing query returned, and the storage
\* call of the tick did not raise for the user of record r.
Ticked(l, r) ==
    /\ last'.op = l /\ last'.text # "list"
    /\ ~(last'.raised /\ last'.text = "storage" /\ last'.user_id = r.user_id)

\* C18: one hourly decay tick sets every user's satiety to max(0, satiety - 10) and mood
\* to max(0, mood - 5) and leaves energy, money, name, states and both inventories as they
\* were (a new pet gets satiety 90 and mood 95).
C18_HourlyDecayTick ==
    [][\A r \in pets : Ticked("hourly_decay", r) =>
          \E q \in RowsOf(pets', r.user_id) :
             /\ q.satiety = (IF r.satiety - 10 < 0 THEN 0 ELSE r.satiety - 10)
             /\ q.mood = (IF r.mood - 5 < 0 THEN 0 ELSE r.mood - 5)
             /\ q.energy = r.energy /\ q.money = r.money /\ q.name = r.name
             /\ q.states = r.states
             /\ q.PetInventory = r.PetInventory /\ q.UserInventory = r.UserInventory]_vars

\* The first tick was an hourly decay and took the new pet to satiety 90 and mood 95.
C18_Witness ==
    /\ last.op = "hourly_decay" /\ ticksLeft = MaxDecayTicks - 1
    /\ \E r \in pets : r.user_id = "u2" /\ r.satiety = 90 /\ r.mood = 95 /\ r.energy = 100

\* floor(10 * satiety / 100), at least 1.
Floor10(satiety) ==
    LET k == CHOOSE k \in 0..10 : 100 * k <= 10 * satiety /\ 10 * satiety < 100 * (k + 1)
    IN IF k < 1 THEN 1 ELSE k

\* C19: one energy recovery tick sets every user's energy to
\* min(100, energy + max(1, floor(10 * satiety / 100))), never above 100, and leaves
\* satiety, mood and money; the recovery is 1 at satiety 0, 10 at satiety 100 and
\* non-decreasing in satiety.
C19_EnergyRecoveryTick ==
    [][/\ \A r \in pets : Ticked("energy_recovery", r) =>
             \E q \in RowsOf(pets', r.user_id) :
                /\ q.energy = (IF r.energy + Floor10(r.satiety) > 100 THEN 100
                                ELSE r.energy + Floor10(r.satiety))
                /\ q.energy <= 100
                /\ q.satiety = r.satiety /\ q.mood = r.mood /\ q.money = r.money
       /\ Recovery(0) = 1 /\ Recovery(100) = 10
       /\ \A s \in 0..99 : Recovery(s) <= Recovery(s + 1)]_vars

\* The first tick was an energy recovery and gave the pet with satiety 0 and energy 0
\* one point of energy.
C19_Witness ==
    /\ last.op = "energy_recovery" /\ ticksLeft = MaxDecayTicks - 1
    /\ \E r \in pets : r.user_id = "u1" /\ r.satiety = 0 /\ r.energy = 1

\* C20: every classification result, from the service or from the local fallback, has a
\* mood_change in [-20,20] other than 0 and is_positive equal to (mood_change > 0).
C20_ClassificationResult ==
    last.op = "analyze_with_groq" =>
       /\ last.arg \in -20..20 /\ last.arg # 0
       /\ (last.outcome = "True") <=> (last.arg > 0)

\* The service answered with a mood_change that came to 0 and the result is the 8 drawn
\* in its place, which no other answer of the service gives.
C20_Witness ==
    last.op = "analyze_with_groq" /\ last.text = "service" /\ last.arg = 8

\* C25: a newly created pet has money 100, satiety, energy and mood 100, empty states,
\* empty worn and owned inventories and all three warned flags false, also when an earlier
\* pet of the same user_id was deleted before: no field value of the deleted record survives.
C25_NewPetDefaults ==
    [][(last'.op \in CreateInserts /\ last'.outcome \in {"201", "row"}) =>
          /\ Cardinality(RowsOf(pets', last'.user_id)) = 1
          /\ \A q \in RowsOf(pets', last'.user_id) :
                /\ q.name = last'.text
                /\ q.money = 100 /\ q.satiety = 100 /\ q.energy = 100 /\ q.mood = 100
                /\ q.states = "NULL" /\ q.PetInventory = <<>> /\ q.UserInventory = <<>>
                /\ q.warned_satiety = 0 /\ q.warned_mood = 0 /\ q.warned_energy = 0]_vars

\* u1, whose first pet was hungry, sad and dressed, has just got a new pet.
C25_Witness ==
    /\ last.op \in CreateInserts /\ last.outcome \in {"201", "row"} /\ last.user_id = "u1"
    /\ UsedRow \notin pets
    /\ \E r \in pets : r.user_id = "u1" /\ r.name = "Rex"

\* C27: on an hourly decay tick, for satiety and for mood independently and for every user
\* whose calls raised no exception: a notification for the stat is sent and its flag set
\* exactly when the post-decay value is 0 and the flag was clear; the flag is cleared
\* without notification exactly when the post-decay value is above 0 and the flag was set;
\* in every other case the flag is unchanged and nothing is sent.
C27_HourlyFlags ==
    [][\A r \in pets :
          (Ticked("hourly_decay", r) /\ ~(last'.raised /\ last'.user_id = r.user_id)) =>
             \A q \in RowsOf(pets', r.user_id) : \A s \in {"satiety", "mood"} :
                LET notify == q[s] = 0 /\ r[WarnedColumn(s)] = 0
                    reset == q[s] > 0 /\ r[WarnedColumn(s)] # 0
                IN /\ (AlertsFor(r.user_id, s) # {}) <=> notify
                   /\ q[WarnedColumn(s)] =
                         (IF notify THEN 1 ELSE IF reset THEN 0 ELSE r[WarnedColumn(s)])]_vars

\* A tick has warned u1 about satiety and set its flag, and has cleared the satiety flag
\* of u2, whose pet had been fed since its warning.
C27_Witness ==
    /\ last.op = "hourly_decay" /\ ~last.raised
    /\ \E m \in last.msgs : m.user_id = "u1" /\ "satiety" \in m.stats
    /\ \E r \in pets : r.user_id = "u1" /\ r.satiety = 0 /\ r.warned_satiety = 1
    /\ \E r \in pets : r.user_id = "u2" /\ r.satiety > 0 /\ r.warned_satiety = 0

\* C28: a low-stat sweep tick sends each user at most one message, and a message sent to
\* a user lists every stat of that user that is at or below its sweep threshold at that
\* tick, not only the stats whose flag was just set.
C28_SweepMessageListsAllLow ==
    [][CleanSweep =>
         \A r \in pets :
            LET mine == {m \in last'.msgs : m.user_id = r.user_id}
            IN /\ Cardinality(mine) <= 1
               /\ \A m \in mine : \A s \in Stats : r[s] <= Threshold(s) => s \in m.stats]_vars

\* The stats of record r whose warned flag the step just taken set.
NewlyFlagged(r) ==
    {s \in Stats : r[WarnedColumn(s)] = 0 /\
                     \A q \in RowsOf(pets', r.user_id) : q[WarnedColumn(s)] = 1}

\* C28, amended: a low-stat sweep tick sends each user at most one message, a user gets a
\* message exactly when the tick set one of its warned flags, and the message lists exactly
\* the stats whose flag the tick set; a low stat that was already flagged is not listed.
C28_SweepMessageListsNewAlerts ==
    [][CleanSweep =>
         \A r \in pets :
            LET mine == {m \in last'.msgs : m.user_id = r.user_id}
            IN /\ Cardinality(mine) <= 1
               /\ (mine # {}) <=> (NewlyFlagged(r) # {})
               /\ \A m \in mine : m.stats = NewlyFlagged(r)]_vars

\* A sweep has just sent u1 a message about mood alone while its satiety, flagged before,
\* is below the threshold too.
C28_Witness ==
    /\ last.op = "check_low_stats" /\ ~last.raised
    /\ \E m \in last.msgs : m.user_id = "u1" /\ m.stats = {"mood"}
    /\ \E r \in pets : /\ r.user_id = "u1" /\ r.satiety = 15 /\ r.warned_satiety = 1
                        /\ r.mood = 15 /\ r.warned_mood = 1

\* The table with u1's pet as it was before the two calls, and the stats of u1 in a table.
Start == {[fetchone(pets, "u2") EXCEPT !.user_id = "u1", !.name = "Tom"]}
StatsOf(tbl) == [s \in Stats |-> fetchone(tbl, "u1")[s]]

\* Function op with the arguments n, run alone and as a whole on a table.
Whole(op, n, tbl) ==
    CASE op = "apply_hourly_decay" -> apply_hourly_decay(tbl, "u1")
      [] op = "apply_energy_recovery" -> apply_energy_recovery(tbl, "u1")
      [] op = "db_apply_minus" -> db_apply_minus(tbl, "u1", n.satiety, n.energy, n.mood)

\* Both threads have finished, c1 with function op1 and c2 with function op2.
BothDone(ops1, ops2) ==
    /\ pc["c1"] = "done" /\ pc["c2"] = "done"
    /\ req["c1"].op \in ops1 /\ req["c2"].op \in ops2

\* The stats after the two functions run one after the other, in either order.
Sequential ==
    {StatsOf(Whole(req["c2"].op, req["c2"].n, Whole(req["c1"].op, req["c1"].n, Start))),
     StatsOf(Whole(req["c1"].op, req["c1"].n, Whole(req["c2"].op, req["c2"].n, Start)))}

\* C29: when an hourly decay and an energy recovery of the same user alternate statement
\* by statement, the final satiety, mood and energy are those of one of the two sequential
\* orders of the two functions.
C29_DecayRecoverySerializable ==
    BothDone({"apply_hourly_decay"}, {"apply_energy_recovery"}) =>
       StatsOf(pets) \in Sequential

\* Both functions read the pet at satiety 100 and energy 50 before either wrote: the
\* energy has grown by 10 (by 9 had the recovery read the decayed satiety) and the satiety
\* has fallen to 90.
C29_Witness ==
    /\ BothDone({"apply_hourly_decay"}, {"apply_energy_recovery"})
    /\ req["c1"].row = req["c2"].row
    /\ req["c1"].row.satiety = 100 /\ req["c1"].row.energy = 50
    /\ StatsOf(pets).satiety = 90 /\ StatsOf(pets).energy = 60

\* C30: when a user action's db_apply_minus and a scheduler function on the same pet
\* alternate statement by statement, no update is lost: the final satiety, energy and mood
\* are those of some sequential order of the two.
C30_NoLostUpdate ==
    BothDone({"apply_hourly_decay", "apply_energy_recovery"}, {"db_apply_minus"}) =>
       StatsOf(pets) \in Sequential

\* C30, amended: each of the final satiety, energy and mood lies in [0,100] and has the
\* value it has after some sequential order of the two functions or after one of the two
\* run alone on the starting record (the other's update to it being lost).
C30_LastWriteWins ==
    BothDone({"apply_hourly_decay", "apply_energy_recovery"}, {"db_apply_minus"}) =>
       \A s \in Stats :
          /\ StatsOf(pets)[s] \in StatLo..StatHi
          /\ \/ \E seq \in Sequential : StatsOf(pets)[s] = seq[s]
             \/ \E c \in Clients :
                   StatsOf(pets)[s] = StatsOf(Whole(req[c].op, req[c].n, Start))[s]

\* A feed and an hourly decay both read the pet at mood 50 and the feed wrote last: the
\* mood is 50 as at the start, the decay is lost.
C30_Witness ==
    /\ BothDone({"apply_hourly_decay"}, {"db_apply_minus"})
    /\ req["c1"].row = req["c2"].row /\ req["c2"].n.satiety = -FeedSatiety
    /\ last.op = "db_apply_minus"
    /\ req["c1"].row.mood = 50
    /\ StatsOf(pets).mood = 50

\* C21: a title shown in two fetch cycles in a row, with no clear and no other title
\* recorded between them, is returned by at most one of the two, whatever the size of
\* the history.
C21_ShownOnce ==
    [][(last.op = "get_news_with_reaction" /\ last'.op = "get_news_with_reaction")
          => \A x \in last.listed, y \in last'.listed :
                normalized(x[2].title) # normalized(y[2].title)]_vars

\* C22: the history never holds more than MAX_SEEN titles.
C22_HistoryBounded == Cardinality(_seen_news) <= MAX_SEEN

\* C22: a cycle on a full history has returned its headline and another title has been
\* evicted for it.
C22_Witness ==
    /\ last.op = "get_news_with_reaction"
    /\ last.listed # {}
    /\ Cardinality(_seen_news) = MAX_SEEN
    /\ <<1, 0, 2>> \in _seen_news
    /\ \E x \in Filler(MAX_SEEN) : x \notin _seen_news

\* The sum of the mood changes of the items of a returned list.
RECURSIVE SumOfListed(_)
SumOfListed(listed) ==
    IF listed = {} THEN 0
    ELSE LET x == CHOOSE x \in listed : TRUE
         IN x[2].mood_change + SumOfListed(listed \ {x})

\* C23: a news request that returns items moves the mood of the user's pet by the sum
\* of their mood changes, cut to 0..100, in one step that leaves every other field of
\* the record alone; a request that returns nothing leaves the table as it was.
C23_NewsMoodOnce ==
    [][last'.op = "_send_news_async"
          => IF last'.listed # {}
             THEN \E r \in pets :
                     /\ r.user_id = last'.user_id
                     /\ pets' = (pets \ {r}) \cup
                           {[r EXCEPT !.mood =
                                Max(0, Min(100, r.mood + SumOfListed(last'.listed)))]}
             ELSE pets' = pets]_vars

\* C23: a request has returned an item worth 15 and the mood has stopped at 100.
C23_Witness ==
    /\ last.op = "_send_news_async"
    /\ last.outcome = "sent"
    /\ SumOfListed(last.listed) = 15
    /\ \E r \in pets : r.user_id = last.user_id /\ r.mood = 100

\* C24: get_news_with_reaction and get_weather_reaction never raise.
C24_NoProviderError ==
    last.op \in {"get_news_with_reaction", "get_weather_reaction"}
        => last.outcome # "raised"

\* C26: get_news_with_reaction(count, source) returns at most min(10, max(1, count))
\* items, and each of them has a reaction, a mood_change and an is_positive.
C26_CappedAndClassified ==
    last.op = "get_news_with_reaction"
        => /\ Cardinality(last.listed) <= Min(10, Max(1, last.arg))
           /\ \A x \in last.listed :
                 {"reaction", "mood_change", "is_positive"} \subseteq DOMAIN x[2]

\* C26: eleven items were asked of a page of twelve and ten have come back.
C26_Witness ==
    /\ last.op = "get_news_with_reaction"
    /\ last.arg = 11
    /\ Cardinality(last.listed) = 10

\* The fetchers a request for `source` calls.
Fetchers(source) ==
    IF source = "mix" THEN {MixSources[i] : i \in DOMAIN MixSources}
    ELSE IF source \in Sources THEN {source} ELSE {"forbes"}

\* The anchors the fetcher `name` finds on its page.
AnchorsOf(pages, name) == {pages[name].anchors[i] : i \in DOMAIN pages[name].anchors}

\* The length filter or a blacklist keyword rejects the anchor.
RejectedEarly(a, name) == a.len < MinTitleLen(name) \/ a.len > MaxTitleLen \/ a.ignored

\* C31: a fetch cycle does not record in the history a title that the length filter or
\* a blacklist keyword rejects.
C31_RejectedNotRecorded ==
    [][\A count \in FilterCounts, source \in FilterSources, pages \in FilterPages :
          get_news_with_reaction(count, source, pages, Answer15)
              => \A name \in Fetchers(source) : \A a \in AnchorsOf(pages, name) :
                    (RejectedEarly(a, name) /\ normalized(a.title) \notin _seen_news)
                        => normalized(a.title) \notin _seen_news']_vars

\* C32: a title that passes every filter of a fetch cycle is returned by the cycle or
\* is not in the history after it, so that a later cycle can return it.
C32_NoCandidateLost ==
    [][\A count \in FilterCounts, source \in FilterSources, pages \in FilterPages :
          get_news_with_reaction(count, source, pages, Answer15)
              => \A name \in Fetchers(source) : \A a \in AnchorsOf(pages, name) :
                    (/\ ~RejectedEarly(a, name)
                     /\ a.relevant
                     /\ normalized(a.title) \notin _seen_news)
                        => \/ \E x \in last'.listed :
                                 normalized(x[2].title) = normalized(a.title)
                           \/ normalized(a.title) \notin _seen_news']_vars

\* C33: a feed of a pet with satiety below 100 and at least one coin takes exactly one
\* coin, sets satiety to min(100, satiety + 10) and changes nothing else; any other
\* feed leaves the table as it was.
C33_Feed ==
    [][last'.op = "cb_feed"
          => IF \E r \in pets : /\ r.user_id = last'.user_id
                                /\ r.satiety < 100 /\ r.money >= 1
             THEN \E r \in pets :
                     /\ r.user_id = last'.user_id
                     /\ pets' = (pets \ {r}) \cup
                           {[r EXCEPT !.money = r.money - 1,
                                      !.satiety = Min(100, r.satiety + 10)]}
             ELSE pets' = pets]_vars

\* C33: a pet at satiety 95 with one coin has been fed.
C33_Witness ==
    /\ last.op = "cb_feed"
    /\ last.outcome = "fed"
    /\ \E r \in pets : r.user_id = last.user_id /\ r.satiety = 100 /\ r.money = 0

EachOnce(sq) == \A i, j \in 1..Len(sq) : sq[i] = sq[j] => i = j

\* C35: whatever the order of the statements of u1's buy requests, the owned inventory
\* holds each item at most once and, when no request is under way, the money spent is
\* 100 times the number of items added.
C35_BuyOncePayOnce ==
    LET r == fetchone(pets, "u1")
        start == fetchone(pets, "u2")
    IN /\ EachOnce(r.UserInventory)
       /\ (\A c \in Clients : pc[c] \in {"idle", "done"})
             => start.money - r.money
                   = ItemPrice * (Len(r.UserInventory) - Len(start.UserInventory))

\* C35: a buy request that, when it writes the item, finds the record as it read it
\* with 100 coins taken checked an item that was not owned, and leaves the record as
\* it read it with 100 coins taken and the item appended once; a request turned down
\* for a missing pet, for money below 100 or for an owned item leaves the table as it
\* was.
C35_UndisturbedBuy ==
    [][/\ \A c \in Clients :
             (pc[c] = "db_add_user_item_update" /\ pc'[c] = "done"
                /\ fetchone(pets, "u1")
                      = [req[c].row EXCEPT !.money = req[c].row.money - 100])
                => /\ ~InSeq(req[c].n, req[c].row.UserInventory)
                   /\ fetchone(pets', "u1")
                         = [req[c].row EXCEPT
                               !.money = req[c].row.money - 100,
                               !.UserInventory = Append(req[c].row.UserInventory,
                                                        req[c].n)]
       /\ (last'.op = "cb_buy" /\ last'.outcome \in {"no pet", "no money", "owned"})
             => pets' = pets]_vars

\* C35: one request has bought "gaming" for a pet that owned "finance" while the other
\* thread was idle.
C35_Witness ==
    /\ last.op = "cb_buy" /\ last.outcome = "bought" /\ last.text = "gaming"
    /\ pc["c1"] = "done" /\ pc["c2"] = "idle"
    /\ fetchone(pets, "u1").UserInventory = <<"finance", "gaming">>
    /\ fetchone(pets, "u1").money = fetchone(pets, "u2").money - 100

\* The accessory `item` grants the source.
Grants(item, source) ==
    \/ item = "finance" /\ source \in {"ria_finance", "ria_politics", "forbes", "mix"}
    \/ item = "gaming" /\ source = "stopgame"
    \/ item = "weather" /\ source = "weather"

\* The worn accessory of the user of the step grants the source.
Granted(source) ==
    \E r \in pets : /\ r.user_id = last'.user_id
                    /\ r.PetInventory # <<>>
                    /\ Grants(r.PetInventory[1], source)

C37_WearToggles ==
    [][last'.op = "cb_wear"
          => IF \E r \in pets : r.user_id = last'.user_id
             THEN \E r \in pets :
                     /\ r.user_id = last'.user_id
                     /\ pets' = (pets \ {r}) \cup
                           {[r EXCEPT !.PetInventory =
                                IF InSeq(last'.text, r.PetInventory) THEN <<>>
                                ELSE <<last'.text>>]}
             ELSE pets' = pets]_vars

\* C37: a wear has put the weather accessory on the pet of an owner of finance.
C37_Witness ==
    /\ last.op = "cb_wear"
    /\ last.outcome = "on"
    /\ last.text = "weather"
    /\ \E r \in pets : /\ r.user_id = last.user_id
                       /\ r.PetInventory = <<"weather">>
                       /\ InSeq("finance", r.UserInventory)

\* C38: no statement of a tick changes the set of user ids of the table, and the tick
\* visits everything its listing query returned, whatever was deleted meanwhile.
C38_TicksKeepUsers ==
    [][last'.op \in Loops
          => /\ get_all_users(pets') = get_all_users(pets)
             /\ pc'["c1"] = "done"
                   => {req'["c1"].processed[i] : i \in DOMAIN req'["c1"].processed}
                         = req'["c1"].listed]_vars

\* C38: u1's pet was deleted between the UPDATE of the hourly decay and the SELECT
\* that follows it; the tick went on to u2's pet and has ended, and u1 has no record.
C38_Witness ==
    /\ pc["c1"] = "done"
    /\ last.op = "hourly_decay"
    /\ req["c1"].processed = <<"u1", "u2">>
    /\ req["c1"].raised = {"u1"}
    /\ get_all_users(pets) = {"u2"}
    /\ fetchone(pets, "u2").satiety = 5

\* C39: in a tick whose notification to u1 is not delivered, the flag of every stat the
\* notification lists is set after the tick and everyone listed is visited; and no
\* later tick builds a notification for a stat of u1 that has stayed at or below its
\* threshold since.
C39_UndeliveredNotRetried ==
    [][last'.op \in {"hourly_decay", "check_low_stats"}
          => /\ \A s \in Stats :
                   AlertsFor("u1", s) # {} => fetchone(pets', "u1")[WarnedColumn(s)] = 1
             /\ \A s \in Stats :
                   phase[<<"u1", s>>] = "alerted" => AlertsFor("u1", s) = {}
             /\ last'.processed = last'.listed]_vars

====
